---- MODULE Spec2Model ----
(***************************************************************************)
(* Model of the roll-off roof door drivers of acremscope-pi.               *)
(*                                                                         *)
(* Two generations of the door controller are modelled side by side:       *)
(*   variant "six"  : doordriver.py  (Door with six parameters, Roof,      *)
(*                    StatusLights and the asyncio _Driver)                *)
(*   variant "five" : doors.py, statuslights.py, shutter.py (Door with     *)
(*                    five parameters and the quartic speed curve)         *)
(*                                                                         *)
(* Time is counted in units of one update period (asyncio.sleep(0.2)),     *)
(* that is UnitsPerSecond units to the second.  Floating point values are  *)
(* modelled by exact fixed-point integers; every place where the code      *)
(* rounds (round(y, 2), round(speed, 3), int(pwm)) is modelled by the      *)
(* same rounding on the exact value.                                       *)
(***************************************************************************)
EXTENDS Integers, Sequences, FiniteSets, TLC

VARIABLES
    variant,        \* "six" (doordriver.py) or "five" (doors.py generation)
    now,            \* time.monotonic(), in units of 1/UnitsPerSecond s
    due,            \* the periodic tasks woken by the event loop, in run order
    door,           \* door[0], door[1]: the two Door objects
    lights,         \* StatusLights.status
    roof,           \* Roof.status
    sender,         \* the deque of messages waiting for the writer
    pub,            \* Bus commands published by the last step
    file,           \* file[d]: the parameter file of door d (<<>> = absent)
    lastop,         \* the operation performed by the last step
    cycle,          \* cycle[d]: history of the current motion cycle of door d
    ncmd,           \* number of commands received so far
    rx,             \* number of commands received since the last tick
    bridge,         \* picoserial.py: where its main loop stands ("off": not running)
    tx,             \* messages published on tx_to_pico the bridge has not yet got
    serin,          \* bytes sent by the pico, waiting in the serial port
    written,        \* the ser.write calls of the last step of the bridge
    bus,            \* the keys picoserial.py sets in redis
    bridgeop,       \* what the last step of the bridge read or was asked to send
    input,          \* the stream the client sends, and the valid messages in it
    wire,           \* the bytes of the stream that have not arrived yet
    stream,         \* the buffer of the StreamReader
    rmessage,       \* reader: its local message, the message in progress
    rtagnumber,     \* reader: its local messagetagnumber (index in TAGS)
    dispatched,     \* the roots passed to respond so far
    readop,         \* the data of the last pass of reader and what became of it
    cuts,           \* the kinds of places where the stream was split so far
    running,        \* whether asyncio.run(handle_data()) is still running
    log,            \* history of the deque: the messages numbered as appended
    monitor,        \* picodriver.py: the Monitor object and where its update stands
    pico            \* whether the pico still answers, and since when it has not

bridgevars == <<bridge, tx, serin, written, bus, bridgeop>>
readervars == <<input, wire, stream, rmessage, rtagnumber, dispatched, readop, cuts>>
monitorvars == <<monitor, pico>>

vars == <<variant, now, due, door, lights, roof, sender, pub, file,
          lastop, cycle, ncmd, rx, bridgevars, readervars, running, log,
          monitorvars>>

(***************************************************************************)
(* Bounds of the model                                                     *)
(***************************************************************************)
MaxNow == 8
MaxMotionNow == 64
MaxCommands == 2
MaxPerTick == 1
MaxTx == 3
MaxSerial == 4
MaxFeed == 3
MaxCmdNow == 3
MaxBurst == 26
MaxRunNow == 80

(***************************************************************************)
(* Program constants                                                       *)
(***************************************************************************)
UnitsPerSecond == 5
SenderMaxLen == 100
Terminator == 255
Doors == {0, 1}

(***************************************************************************)
(* Arithmetic helpers                                                      *)
(***************************************************************************)
Abs(x) == IF x < 0 THEN -x ELSE x

\* floor(num / den) of a non-negative rational, rounded half to even
\* as round() does
RoundHalfEven(num, den) ==
    LET q == num \div den
        r2 == 2 * (num % den)
    IN  IF r2 < den THEN q
        ELSE IF r2 > den THEN q + 1
        ELSE IF q % 2 = 0 THEN q ELSE q + 1

\* x * p / q truncated towards zero, computed in two halves so that no
\* intermediate product leaves the range of the integers of the checker
\* (requires 0 <= p, 0 < q, q * 10000 and p * 10000 below 2^31)
MulDiv(x, p, q) ==
    LET ax == Abs(x)
        xh == ax \div 10000
        xl == ax % 10000
        q1 == (xh * p) \div q
        r1 == (xh * p) % q
        v  == q1 * 10000 + ((r1 * 10000 + xl * p) \div q)
    IN  IF x < 0 THEN -v ELSE v

(***************************************************************************)
(* doors.py: the quartic speed curve of the five-parameter door            *)
(***************************************************************************)
\* coefficients of the fit y = a + b*t + c*t^2 + d*t^3 + e*t^4, held as
\* fixed-point integers: a and b scaled by 10^9, c by 10^10, d and e by 10^11
CoeffA == -54093700
CoeffB == 330319000
CoeffC == -383795000
CoeffD == 218635000
CoeffE == -5465890
RatioScale == 10000000

\* the polynomial of curve() at t = p/q, clamped to [0, 1] and rounded to
\* two decimals; the result is in hundredths (0 .. 100)
poly(p, q) ==
    LET x3 == CoeffD + MulDiv(CoeffE, p, q)
        x2 == CoeffC + MulDiv(x3, p, 10 * q)
        x1 == CoeffB + MulDiv(x2, p, 10 * q)
        y  == CoeffA + MulDiv(x1, p, q)
        yc == IF y < 0 THEN 0 ELSE IF y > 100 * RatioScale THEN 100 * RatioScale ELSE y
    IN  RoundHalfEven(yc, RatioScale)

\* curve(t, duration) of doors.py with t = p/q and duration = durp/q;
\* result in hundredths
doors_curve(p, durp, q) ==
    IF p >= durp THEN 0
    ELSE IF 2 * p <= durp
         THEN IF p > 8 * q THEN 100 ELSE poly(p, q)
         ELSE IF durp - p > 8 * q THEN 100 ELSE poly(20 * q - (durp - p), q)

\* pwmratio(t, fast_duration, duration) with t = n time units; result in
\* hundredths.  acc_time = (duration - fast_duration)/2, scale = 8/acc_time,
\* so t*scale = 16n / (UnitsPerSecond * (duration - fast_duration))
pwmratio(n, fast_duration, duration) ==
    IF n >= duration * UnitsPerSecond THEN 0
    ELSE IF fast_duration >= duration THEN 100
    ELSE doors_curve(16 * n,
                     16 * duration * UnitsPerSecond,
                     UnitsPerSecond * (duration - fast_duration))

\* the products x*m (+ add) of a two-decimal float x = r/100 that the
\* binary floating point of the interpreter rounds to just below the exact
\* integer value, so that int() yields one less (multipliers below 100)
FloatLoss(r, m, add) ==
    IF (r = 58 /\ m = 50 /\ add \in 0..3) \/ (r = 70 /\ m = 90 /\ add \in 0..1)
    THEN 1 ELSE 0

\* int(ratio * m + add) for ratio = r/100
IntScale(r, m, add) == ((r * m) \div 100) + add - FloatLoss(r, m, add)

\* the pwm value Door.update of doors.py computes at running time n units
\* (lines 117-139): the ratio scaled by max_ratio in the first half of
\* duration, scaled into [minimum, max_ratio] in the second half
pwm_five(n, p, slow) ==
    LET ratio == pwmratio(n, p.fast_duration, p.duration)
        max_ratio == IF slow THEN p.minimum + 1 ELSE p.maximum
    IN  IF 2 * n < p.duration * UnitsPerSecond
        THEN IntScale(ratio, max_ratio, 0)
        ELSE IntScale(ratio, max_ratio - p.minimum, p.minimum)

(***************************************************************************)
(* doordriver.py: the piecewise linear speed curve of the six-parameter    *)
(* door                                                                    *)
(***************************************************************************)
\* the list c of curve(), in hundredths, indexed from 0
CurveTable == <<0, 5, 15, 30, 50, 70, 85, 95, 100>>
\* a table with a dip: the fourth interval falls instead of rising
c_mut(i) == IF i = 4 THEN 20 ELSE CurveTable[i + 1]
c(i) == CurveTable[i + 1]

\* the interpolation y = diff*x + c[lowindex] - diff*lowindex for
\* x = 8*u / den; y is returned as a numerator over (100 * den)
interp(u, den) ==
    LET lowindex == (8 * u) \div den
        highindex == lowindex + 1
        diff == c(highindex) - c(lowindex)
        y == diff * (8 * u - lowindex * den) + c(lowindex) * den
    IN  IF y < 0 THEN 0 ELSE y

\* curve() with the deceleration scaled from fast down to zero instead of
\* down to slow
curve_mut(n, acc_t, fast_t, dec_t, slow_t, fast, slow) ==
    LET U == UnitsPerSecond
        duration == acc_t + fast_t + dec_t
        full_duration == duration + slow_t
        s == duration * U - n
    IN  IF n >= full_duration * U THEN 0
        ELSE IF n >= duration * U THEN slow
        ELSE IF n >= acc_t * U /\ n <= (acc_t + fast_t) * U THEN fast
        ELSE IF n <= acc_t * U
             THEN RoundHalfEven(interp(n, acc_t * U) * fast * 10, acc_t * U) \div 1000
        ELSE IF s >= dec_t * U THEN fast
        ELSE RoundHalfEven(interp(s, dec_t * U) * fast * 10, dec_t * U) \div 1000

\* curve(t, acc_t, fast_t, dec_t, slow_t, fast, slow) followed by int():
\* t = n time units, the durations in seconds.  The speed is rounded to
\* three decimals (thousandths) and then truncated by int(pwm)
curve(n, acc_t, fast_t, dec_t, slow_t, fast, slow) ==
    LET U == UnitsPerSecond
        duration == acc_t + fast_t + dec_t
        full_duration == duration + slow_t
        s == duration * U - n
    IN  IF n >= full_duration * U THEN 0
        ELSE IF n >= duration * U THEN slow
        ELSE IF n >= acc_t * U /\ n <= (acc_t + fast_t) * U THEN fast
        ELSE IF n <= acc_t * U
             THEN RoundHalfEven(interp(n, acc_t * U) * fast * 10, acc_t * U) \div 1000
        ELSE IF s >= dec_t * U THEN fast
        ELSE (RoundHalfEven(interp(s, dec_t * U) * (fast - slow) * 10, dec_t * U)
                 + slow * 1000) \div 1000

\* the pwm value computed without the slow override
pwm_six_mut(n, p, slow) ==
    curve(n, p.acc_duration, p.fast_duration, p.dec_duration, p.slow_duration,
          p.maximum, p.minimum)

\* the pwm value Door.update of doordriver.py computes (lines 752-769)
pwm_six(n, p, slow) ==
    curve(n, p.acc_duration, p.fast_duration, p.dec_duration, p.slow_duration,
          IF slow THEN p.minimum + 1 ELSE p.maximum, p.minimum)

(***************************************************************************)
(* Texts, messages and parameters                                          *)
(***************************************************************************)
\* A decimal text is <<z, v>>: the digits of v preceded by z zeros.
\* str(v) is the text Python's str() gives, int(t) the value of int(t.strip())
str(v) == <<0, v>>
int(t) == t[2]

\* the text of an element that has none (item.text is None), and a text
\* that is no decimal integer, such as "abc" or "7.5"
NoText == <<-1, 0>>
NotANumber == <<-2, 0>>
\* item.text.strip() raises AttributeError when the text is None
strip_raises(t) == t = NoText
\* int(text) raises ValueError unless the text is a decimal integer
int_raises(t) == t[1] < 0

Device == "Roll off door"
\* the value of root.get(...) for an attribute the message does not have
None == "(None)"
DoorName(d) == IF d = 1 THEN "RIGHT_DOOR" ELSE "LEFT_DOOR"
OkMessage == "Door motion durations and motor PWM ratio can be set here."

\* the attributes holding the parameters, in the order of Door.elements,
\* and the names of the oneNumber elements that set them
Fields6 == <<"acc_duration", "fast_duration", "dec_duration", "slow_duration",
             "maximum", "minimum">>
Names6 == <<"ACC_DURATION", "FAST_DURATION", "DEC_DURATION", "SLOW_DURATION",
            "MAXIMUM", "MINIMUM">>
Fields5 == <<"fast_duration", "duration", "max_running_time", "maximum", "minimum">>
Names5 == <<"FAST_DURATION", "DURATION", "MAX_RUNNING_TIME", "MAXIMUM", "MINIMUM">>
Fields(v) == IF v = "six" THEN Fields6 ELSE Fields5
Names(v) == IF v = "six" THEN Names6 ELSE Names5

\* the defaults set by Door.__init__
DefaultSix == [acc_duration |-> 2, fast_duration |-> 4, dec_duration |-> 2,
               slow_duration |-> 2, maximum |-> 95, minimum |-> 5]
DefaultFive == [fast_duration |-> 4, duration |-> 8, max_running_time |-> 10,
                maximum |-> 95, minimum |-> 5]

\* Door.__init__: a door at rest with the given parameters
NewDoor(p) == [direction |-> TRUE, pwm_ratio |-> 0, moving |-> FALSE,
               start_running |-> 0, slow |-> FALSE, p |-> p]

\* a command published on the Bus: pico_door<d>_<cmd>_<value>
BusCmd(d, cmd, value) == [door |-> d, cmd |-> cmd, value |-> value]

\* append of a deque without maxlen
Append100_mut(q, m) == q \o <<m>>

\* collections.deque(maxlen=100).append: a full deque drops its oldest entry
Append100(q, m) == IF Len(q) >= SenderMaxLen THEN Tail(q) \o <<m>> ELSE q \o <<m>>

RECURSIVE AppendAll(_, _)
AppendAll(q, ms) == IF ms = <<>> THEN q ELSE AppendAll(Append100(q, Head(ms)), Tail(ms))

\* the writer taking the messages from the wrong end of the deque
drain_mut(q) == [i \in 1..Len(q) |-> q[Len(q) + 1 - i]]

\* the loop of popleft() of the writer: the messages in the order written
drain(q) == q

\* history of the deque.  Every message appended gets the next number;
\* pending holds the numbers of the messages in sender, kept by the
\* operations of the deque itself, output the numbers in the order written
NoLog == [on |-> FALSE, appended |-> 0, pending |-> <<>>, output |-> <<>>]
NewLog == [NoLog EXCEPT !.on = TRUE]

\* k messages are appended to sender
Logged(lg, k) ==
    IF lg.on
    THEN [lg EXCEPT !.appended = @ + k,
                    !.pending = AppendAll(@, [i \in 1..k |-> lg.appended + i])]
    ELSE lg

\* the writer empties sender
Written(lg) ==
    IF lg.on THEN [lg EXCEPT !.pending = <<>>, !.output = @ \o drain(lg.pending)]
    ELSE lg

LogOff == log = NoLog

\* picodriver.py is not running
NoMonitor == [pc |-> "off", count |-> 0, status |-> TRUE, msgs |-> <<>>]
NoPico == [alive |-> TRUE, quiet |-> FALSE]
MonitorOff == monitor = NoMonitor /\ pico = NoPico

(***************************************************************************)
(* Door.elements, read_parameters, write_parameters                        *)
(***************************************************************************)
elements(v, dr) == [i \in 1..Len(Fields(v)) |-> str(dr.p[Fields(v)[i]])]

\* write_parameters writing the elements last to first
write_parameters_mut(v, dr) ==
    [i \in 1..Len(Fields(v)) |-> elements(v, dr)[Len(Fields(v)) + 1 - i]]

\* write_parameters: one line per element
write_parameters(v, dr) == elements(v, dr)

\* read_parameters: an absent file or a wrong line count leaves the defaults
read_parameters(v, dr, lines) ==
    IF lines = <<>> \/ Len(lines) # Len(Fields(v)) THEN dr
    ELSE [dr EXCEPT !.p = [f \in DOMAIN dr.p |->
                 int(lines[CHOOSE i \in 1..Len(Fields(v)) : Fields(v)[i] = f])]]

(***************************************************************************)
(* Door.startdoor                                                          *)
(***************************************************************************)
\* startdoor without the test of the moving flag
startdoor_six_mut(dr, d, direction, slow, t) ==
    [door |-> [dr EXCEPT !.start_running = t, !.moving = TRUE,
                         !.slow = slow, !.direction = direction],
     pub |-> <<BusCmd(d, "direction", IF direction THEN 1 ELSE 0)>>]

\* doordriver.py: startdoor(direction, slow) at time t
startdoor_six(dr, d, direction, slow, t) ==
    IF dr.moving THEN [door |-> dr, pub |-> <<>>]
    ELSE [door |-> [dr EXCEPT !.start_running = t, !.moving = TRUE,
                              !.slow = slow, !.direction = direction],
          pub |-> <<BusCmd(d, "direction", IF direction THEN 1 ELSE 0)>>]

\* doors.py: startdoor(direction) at time t
startdoor_five(dr, d, direction, t) ==
    IF dr.moving THEN [door |-> dr, pub |-> <<>>]
    ELSE [door |-> [dr EXCEPT !.start_running = t, !.moving = TRUE,
                              !.direction = direction],
          pub |-> <<BusCmd(d, "direction", IF direction THEN 1 ELSE 0)>>]

startdoor(v, dr, d, direction, t) ==
    IF v = "six" THEN startdoor_six(dr, d, direction, FALSE, t)
    ELSE startdoor_five(dr, d, direction, t)

(***************************************************************************)
(* Door.update: one pass of the periodic pwm update at time t              *)
(***************************************************************************)
\* the fail-safe cutoff, in seconds
max_running_time(v, p) ==
    IF v = "six"
    THEN p.acc_duration + p.fast_duration + p.dec_duration + p.slow_duration
    ELSE p.max_running_time

\* the pwm value published at every pass, changed or not
send_pwm_mut(dr, d, pwm) ==
    [door |-> [dr EXCEPT !.pwm_ratio = pwm], pub |-> <<BusCmd(d, "pwm", pwm)>>]

\* the body shared by both generations once the pwm value is computed
send_pwm(dr, d, pwm) ==
    IF pwm = dr.pwm_ratio THEN [door |-> dr, pub |-> <<>>]
    ELSE [door |-> [dr EXCEPT !.pwm_ratio = pwm], pub |-> <<BusCmd(d, "pwm", pwm)>>]

stop_door(dr, d) ==
    [door |-> [dr EXCEPT !.pwm_ratio = 0, !.moving = FALSE],
     pub |-> <<BusCmd(d, "pwm", 0)>>]

\* update with the cutoff tested by > instead of >=
update_six_mut(dr, d, t) ==
    LET running_time == t - dr.start_running
    IN  IF ~dr.moving THEN [door |-> [dr EXCEPT !.slow = FALSE], pub |-> <<>>]
        ELSE IF running_time > max_running_time("six", dr.p) * UnitsPerSecond
             THEN stop_door(dr, d)
        ELSE send_pwm(dr, d, pwm_six(running_time, dr.p, dr.slow))

\* update stopping the door one time unit before the cutoff
update_six_early(dr, d, t) ==
    LET running_time == t - dr.start_running
    IN  IF ~dr.moving THEN [door |-> [dr EXCEPT !.slow = FALSE], pub |-> <<>>]
        ELSE IF running_time + 1 >= max_running_time("six", dr.p) * UnitsPerSecond
             THEN stop_door(dr, d)
        ELSE send_pwm(dr, d, pwm_six(running_time, dr.p, dr.slow))

\* doordriver.py: Door.update
update_six(dr, d, t) ==
    LET running_time == t - dr.start_running
    IN  IF ~dr.moving THEN [door |-> [dr EXCEPT !.slow = FALSE], pub |-> <<>>]
        ELSE IF running_time >= max_running_time("six", dr.p) * UnitsPerSecond
             THEN stop_door(dr, d)
        ELSE send_pwm(dr, d, pwm_six(running_time, dr.p, dr.slow))

\* doors.py: update with the cutoff tested by > instead of >=
update_five_mut(dr, d, t) ==
    LET running_time == t - dr.start_running
    IN  IF ~dr.moving THEN [door |-> [dr EXCEPT !.slow = FALSE], pub |-> <<>>]
        ELSE IF running_time > max_running_time("five", dr.p) * UnitsPerSecond
             THEN stop_door(dr, d)
        ELSE send_pwm(dr, d, pwm_five(running_time, dr.p, dr.slow))

\* doors.py: Door.update
update_five(dr, d, t) ==
    LET running_time == t - dr.start_running
    IN  IF ~dr.moving THEN [door |-> [dr EXCEPT !.slow = FALSE], pub |-> <<>>]
        ELSE IF running_time >= max_running_time("five", dr.p) * UnitsPerSecond
             THEN stop_door(dr, d)
        ELSE send_pwm(dr, d, pwm_five(running_time, dr.p, dr.slow))

update(v, dr, d, t) == IF v = "six" THEN update_six(dr, d, t) ELSE update_five(dr, d, t)

(***************************************************************************)
(* Door.setnumbervector and Door.newvector                                 *)
(***************************************************************************)
\* setnumbervector reporting every element, changed or not
setnumbervector_mut(v, dr, d, els, state, message) ==
    LET F == Fields(v)
        int_elements == [i \in 1..Len(els) |-> int(els[i])]
    IN  [door |-> [dr EXCEPT !.p = [f \in DOMAIN dr.p |->
                       int_elements[CHOOSE i \in 1..Len(F) : F[i] = f]]],
         xml |-> [tag |-> "setNumberVector", device |-> Device, name |-> DoorName(d),
                  state |-> state, message |-> message,
                  children |-> [k \in 1..Len(F) |->
                       [tag |-> "oneNumber", name |-> Names(v)[k],
                        text |-> str(int_elements[k])]]]]

\* setnumbervector(elements, state, message): stores every element that
\* differs from the stored value and reports it as a oneNumber child
setnumbervector(v, dr, d, els, state, message) ==
    LET F == Fields(v)
        int_elements == [i \in 1..Len(els) |-> int(els[i])]
        Differs(i) == int_elements[i] # dr.p[F[i]]
        chg == SelectSeq([i \in 1..Len(F) |-> i], Differs)
    IN  [door |-> [dr EXCEPT !.p = [f \in DOMAIN dr.p |->
                       int_elements[CHOOSE i \in 1..Len(F) : F[i] = f]]],
         xml |-> [tag |-> "setNumberVector", device |-> Device, name |-> DoorName(d),
                  state |-> state, message |-> message,
                  children |-> [k \in 1..Len(chg) |->
                       [tag |-> "oneNumber", name |-> Names(v)[chg[k]],
                        text |-> str(int_elements[chg[k]])]]]]

\* the loop over root.findall("oneNumber"): every named element replaces
\* the text at its position of newelements
RECURSIVE merge(_, _, _)
merge(names, els, children) ==
    IF children = <<>> THEN els
    ELSE merge(names,
               [i \in 1..Len(els) |-> IF names[i] = Head(children).name
                                      THEN Head(children).text ELSE els[i]],
               Tail(children))

\* the reply of newvector when a check fails: the stored elements, Alert
reject(v, dr, d, message) ==
    [door |-> dr,
     msgs |-> <<setnumbervector(v, dr, d, elements(v, dr), "Alert", message).xml>>,
     write |-> FALSE]

\* the reply of newvector when the checks pass: store, report, save
accept(v, dr, d, newelements) ==
    LET r == setnumbervector(v, dr, d, newelements, "Ok", OkMessage)
    IN  [door |-> r.door, msgs |-> <<r.xml>>, write |-> TRUE]

\* the checks of newvector without the lower limit of minimum
checks_six_mut(v, dr, d, newelements) ==
    LET receivedmax == int(newelements[5])
        receivedmin == int(newelements[6])
    IN  IF receivedmin >= receivedmax
        THEN reject(v, dr, d, "The maximum pwm must be greater than the minimum")
        ELSE IF receivedmax > 95
        THEN reject(v, dr, d, "The maximum pwm is 95 max")
        ELSE IF receivedmin > 50
        THEN reject(v, dr, d, "The minimum pwm is 50 max")
        ELSE accept(v, dr, d, newelements)

\* doordriver.py: the checks of newvector on the merged elements
checks_six(v, dr, d, newelements) ==
    LET receivedmax == int(newelements[5])
        receivedmin == int(newelements[6])
    IN  IF receivedmin >= receivedmax
        THEN reject(v, dr, d, "The maximum pwm must be greater than the minimum")
        ELSE IF receivedmax > 95
        THEN reject(v, dr, d, "The maximum pwm is 95 max")
        ELSE IF receivedmin > 50
        THEN reject(v, dr, d, "The minimum pwm is 50 max")
        ELSE IF receivedmin < 1
        THEN reject(v, dr, d, "The minimum pwm is 1")
        ELSE accept(v, dr, d, newelements)

\* doors.py: the checks of newvector on the merged elements
checks_five(v, dr, d, newelements) ==
    LET intelements == [i \in 1..Len(newelements) |-> int(newelements[i])]
    IN  IF intelements[1] >= intelements[2]
        THEN reject(v, dr, d, "High speed duration must be shorter than the duration of travel")
        ELSE IF intelements[2] >= intelements[3]
        THEN reject(v, dr, d, "The maximum running time must be longer than the duration of travel")
        ELSE IF intelements[5] >= intelements[4]
        THEN reject(v, dr, d, "The maximum pwm must be greater than the minimum")
        ELSE accept(v, dr, d, newelements)

\* whether Door.newvector(root) raises: AttributeError at the strip() of a
\* named oneNumber without text, ValueError at the int() of the checks or
\* of setnumbervector; it raises before anything is stored or appended
newvector_raises(v, dr, d, root) ==
    IF root.tag # "newNumberVector" \/ root.device # Device \/ root.name # DoorName(d)
    THEN FALSE
    ELSE IF \E k \in 1..Len(root.children) :
               /\ \E i \in 1..Len(Names(v)) : Names(v)[i] = root.children[k].name
               /\ strip_raises(root.children[k].text)
    THEN TRUE
    ELSE LET newelements == merge(Names(v), elements(v, dr), root.children)
             some == \E i \in 1..Len(newelements) : int_raises(newelements[i])
         IN  IF newelements = elements(v, dr) THEN FALSE
             ELSE IF v = "five" THEN some
             ELSE IF int_raises(newelements[5]) \/ int_raises(newelements[6]) THEN TRUE
             ELSE some /\ checks_six(v, dr, d, newelements).write

\* Door.newvector(root)
newvector(v, dr, d, root) ==
    IF root.tag # "newNumberVector" \/ root.device # Device \/ root.name # DoorName(d)
    THEN [door |-> dr, msgs |-> <<>>, write |-> FALSE]
    ELSE LET newelements == merge(Names(v), elements(v, dr), root.children)
         IN  IF newelements = elements(v, dr)
             THEN [door |-> dr,
                   msgs |-> <<setnumbervector(v, dr, d, elements(v, dr), "Ok", OkMessage).xml>>,
                   write |-> FALSE]
             ELSE IF v = "six" THEN checks_six(v, dr, d, newelements)
             ELSE checks_five(v, dr, d, newelements)

(***************************************************************************)
(* StatusLights                                                            *)
(***************************************************************************)
\* the status derived with "both moving" in place of "either moving"
door_status_mut(leftdoor, rightdoor) ==
    LET s1 == IF leftdoor.direction /\ rightdoor.direction
              THEN IF leftdoor.moving /\ rightdoor.moving THEN "OPENING" ELSE "OPEN"
              ELSE "UNKNOWN"
    IN  IF ~leftdoor.direction /\ ~rightdoor.direction
        THEN IF leftdoor.moving /\ rightdoor.moving THEN "CLOSING" ELSE "CLOSED"
        ELSE s1

\* the status StatusLights.update derives from the two doors
door_status(leftdoor, rightdoor) ==
    LET s1 == IF leftdoor.direction /\ rightdoor.direction
              THEN IF leftdoor.moving \/ rightdoor.moving THEN "OPENING" ELSE "OPEN"
              ELSE "UNKNOWN"
    IN  IF ~leftdoor.direction /\ ~rightdoor.direction
        THEN IF leftdoor.moving \/ rightdoor.moving THEN "CLOSING" ELSE "CLOSED"
        ELSE s1

StatusMessage(status) ==
    CASE status = "OPEN" -> "Roof status : open"
      [] status = "OPENING" -> "Roof status : opening"
      [] status = "CLOSING" -> "Roof status : closing"
      [] status = "CLOSED" -> "Roof status : closed"
      [] OTHER -> "Roof status : unknown"

LightNames == <<"OPEN", "OPENING", "CLOSING", "CLOSED", "UNKNOWN">>

\* setlightvector(status, state, message) called with a status that differs
\* from the stored one: five oneLight children, the one of the status lit
setlightvector(status, state, message) ==
    [tag |-> "setLightVector", device |-> Device, name |-> "DOOR_STATE",
     state |-> state, message |-> StatusMessage(status),
     children |-> [i \in 1..5 |->
         [tag |-> "oneLight", name |-> LightNames[i],
          text |-> IF LightNames[i] # status THEN "Idle"
                   ELSE IF status = "UNKNOWN" THEN "Alert" ELSE "Ok"]]]

\* an update of the lights that reports the status at every pass
lights_update_mut(old, leftdoor, rightdoor) ==
    LET status == door_status(leftdoor, rightdoor)
    IN  [status |-> status,
         msgs |-> <<setlightvector(status, IF status = "UNKNOWN" THEN "Alert" ELSE "Ok",
                                   "Roof status")>>]

\* StatusLights.update: the new status and the message appended, if any
lights_update(old, leftdoor, rightdoor) ==
    LET status == door_status(leftdoor, rightdoor)
    IN  IF status = old THEN [status |-> old, msgs |-> <<>>]
        ELSE IF status = "UNKNOWN"
        THEN [status |-> status,
              msgs |-> <<setlightvector(status, "Alert", "Roof status unknown")>>]
        ELSE [status |-> status,
              msgs |-> <<setlightvector(status, "Ok", "Roof status")>>]

\* a newvector of the lights that takes a command addressed to DOOR_STATE
lights_newvector_mut(status, root) ==
    IF root.device = Device /\ root.name = "DOOR_STATE"
    THEN [status |-> "UNKNOWN",
          msgs |-> <<setlightvector("UNKNOWN", "Alert", "Roof status unknown")>>]
    ELSE [status |-> status, msgs |-> <<>>]

\* StatusLights.newvector: a placeholder, it returns at once
lights_newvector(status, root) == [status |-> status, msgs |-> <<>>]

(***************************************************************************)
(* Roof                                                                    *)
(***************************************************************************)
\* setswitchvector(status, state="Ok") called with a changed status
setswitchvector(status) ==
    [tag |-> "setSwitchVector", device |-> Device, name |-> "DOME_SHUTTER",
     state |-> IF status \in {"OPENING", "CLOSING"} THEN "Busy" ELSE "Ok",
     message |-> "",
     children |-> <<[tag |-> "oneSwitch", name |-> "SHUTTER_OPEN",
                     text |-> IF status \in {"OPEN", "OPENING"} THEN "On" ELSE "Off"],
                    [tag |-> "oneSwitch", name |-> "SHUTTER_CLOSE",
                     text |-> IF status \in {"CLOSED", "CLOSING"} THEN "On" ELSE "Off"]>>]

\* Roof.update: follow the status of the lights
roof_update(old, lightstatus) ==
    IF lightstatus = old THEN [status |-> old, msgs |-> <<>>]
    ELSE [status |-> lightstatus, msgs |-> <<setswitchvector(lightstatus)>>]

\* sendsetswitchvectorok (doordriver.py only)
setswitchvectorok ==
    [tag |-> "setSwitchVector", device |-> Device, name |-> "DOME_SHUTTER",
     state |-> "Ok", message |-> "", children |-> <<>>]

\* the requests tested against the wrong status: open when OPEN, close
\* when CLOSED
switch_action_same(v, pn, content, lightstatus) ==
    LET wantopen == (pn = "SHUTTER_OPEN" /\ content = "On")
                      \/ (pn = "SHUTTER_CLOSE" /\ content = "Off")
        wantclose == (pn = "SHUTTER_OPEN" /\ content = "Off")
                      \/ (pn = "SHUTTER_CLOSE" /\ content = "On")
    IN  IF wantopen
        THEN IF lightstatus = "OPEN" THEN "open"
             ELSE IF lightstatus = "CLOSED" /\ v = "six" THEN "ok" ELSE "none"
        ELSE IF wantclose
        THEN IF lightstatus = "CLOSED" THEN "close"
             ELSE IF lightstatus = "OPEN" /\ v = "six" THEN "ok" ELSE "none"
        ELSE "none"

\* the request to open tested against the status OPENING instead of CLOSED
switch_action_mut(v, pn, content, lightstatus) ==
    LET wantopen == (pn = "SHUTTER_OPEN" /\ content = "On")
                      \/ (pn = "SHUTTER_CLOSE" /\ content = "Off")
        wantclose == (pn = "SHUTTER_OPEN" /\ content = "Off")
                      \/ (pn = "SHUTTER_CLOSE" /\ content = "On")
    IN  IF wantopen
        THEN IF lightstatus = "OPENING" THEN "open"
             ELSE IF lightstatus = "OPEN" /\ v = "six" THEN "ok" ELSE "none"
        ELSE IF wantclose
        THEN IF lightstatus = "OPEN" THEN "close"
             ELSE IF lightstatus = "CLOSED" /\ v = "six" THEN "ok" ELSE "none"
        ELSE "none"

\* what one oneSwitch element asks for, given the status of the lights:
\* "open", "close", "ok" (reply already open / closed) or "none"
switch_action(v, pn, content, lightstatus) ==
    LET wantopen == (pn = "SHUTTER_OPEN" /\ content = "On")
                      \/ (pn = "SHUTTER_CLOSE" /\ content = "Off")
        wantclose == (pn = "SHUTTER_OPEN" /\ content = "Off")
                      \/ (pn = "SHUTTER_CLOSE" /\ content = "On")
    IN  IF wantopen
        THEN IF lightstatus = "CLOSED" THEN "open"
             ELSE IF lightstatus = "OPEN" /\ v = "six" THEN "ok" ELSE "none"
        ELSE IF wantclose
        THEN IF lightstatus = "OPEN" THEN "close"
             ELSE IF lightstatus = "CLOSED" /\ v = "six" THEN "ok" ELSE "none"
        ELSE "none"

\* Roof.newvector: the loop over the oneSwitch elements.  st is
\* [left, right, msgs, pub, calls, raised]; calls is the log of the startdoor
\* calls made: the door addressed, whether it was moving when called and
\* the direction asked for;
\* raised tells that setting.text.strip() raised on an element without text
RECURSIVE roof_switches(_, _, _, _, _)
roof_switches(v, st, switchlist, lightstatus, t) ==
    IF switchlist = <<>> \/ st.raised THEN st
    ELSE IF Head(switchlist).text = None THEN [st EXCEPT !.raised = TRUE]
    ELSE LET setting == Head(switchlist)
             act == switch_action(v, setting.name, setting.text, lightstatus)
             dir == (act = "open")
             l == startdoor(v, st.left, 0, dir, t)
             r == startdoor(v, st.right, 1, dir, t)
             st2 == IF act \in {"open", "close"}
                    THEN [left |-> l.door, right |-> r.door, msgs |-> st.msgs,
                          pub |-> st.pub \o l.pub \o r.pub,
                          calls |-> st.calls \o
                              <<[door |-> 0, moving |-> st.left.moving, direction |-> dir],
                                [door |-> 1, moving |-> st.right.moving, direction |-> dir]>>,
                          raised |-> FALSE]
                    ELSE IF act = "ok"
                    THEN [st EXCEPT !.msgs = st.msgs \o <<setswitchvectorok>>]
                    ELSE st
         IN  roof_switches(v, st2, Tail(switchlist), lightstatus, t)

\* Roof.newvector without the test of the name of the vector
roof_newvector_mut(v, leftdoor, rightdoor, root, lightstatus, t) ==
    LET st == [left |-> leftdoor, right |-> rightdoor, msgs |-> <<>>, pub |-> <<>>,
               calls |-> <<>>, raised |-> FALSE]
    IN  IF root.tag # "newSwitchVector" \/ root.device # Device
        THEN st
        ELSE roof_switches(v, st, root.children, lightstatus, t)

\* Roof.newvector(root)
roof_newvector(v, leftdoor, rightdoor, root, lightstatus, t) ==
    LET st == [left |-> leftdoor, right |-> rightdoor, msgs |-> <<>>, pub |-> <<>>,
               calls |-> <<>>, raised |-> FALSE]
    IN  IF root.tag # "newSwitchVector" \/ root.device # Device
           \/ root.name # "DOME_SHUTTER"
        THEN st
        ELSE roof_switches(v, st, root.children, lightstatus, t)

(***************************************************************************)
(* getProperties: the definitions of the vectors and getvector             *)
(***************************************************************************)
\* Door.defnumbervector: a defNumber for every element, with its value
defnumbervector(v, dr, d) ==
    [tag |-> "defNumberVector", device |-> Device, name |-> DoorName(d),
     state |-> "Ok", message |-> "",
     children |-> [i \in 1..Len(Names(v)) |->
         [tag |-> "defNumber", name |-> Names(v)[i], text |-> elements(v, dr)[i]]]]

\* StatusLights.deflightvector
deflightvector(status) ==
    [tag |-> "defLightVector", device |-> Device, name |-> "DOOR_STATE",
     state |-> "Ok", message |-> StatusMessage(status),
     children |-> [i \in 1..5 |->
         [tag |-> "defLight", name |-> LightNames[i],
          text |-> IF LightNames[i] # status THEN "Idle"
                   ELSE IF status = "UNKNOWN" THEN "Alert" ELSE "Ok"]]]

\* Roof.defswitchvector: the switches follow the status of the lights
defswitchvector(lightstatus) ==
    [tag |-> "defSwitchVector", device |-> Device, name |-> "DOME_SHUTTER",
     state |-> IF lightstatus \in {"OPENING", "CLOSING"} THEN "Busy" ELSE "Ok",
     message |-> "",
     children |-> <<[tag |-> "defSwitch", name |-> "SHUTTER_OPEN",
                     text |-> IF lightstatus \in {"OPEN", "OPENING"} THEN "On" ELSE "Off"],
                    [tag |-> "defSwitch", name |-> "SHUTTER_CLOSE",
                     text |-> IF lightstatus \in {"CLOSED", "CLOSING"} THEN "On" ELSE "Off"]>>]

\* getvector(root) of Door, StatusLights and Roof: what it appends to sender
getvector(root, name, definition) ==
    IF root.device = None THEN <<definition>>
    ELSE IF root.device # Device THEN <<>>
    ELSE IF root.name = None \/ root.name = name THEN <<definition>>
    ELSE <<>>

\* respond without the test of the version
getproperties_mut(v, root, leftdoor, rightdoor, lightstatus) ==
    getvector(root, DoorName(0), defnumbervector(v, leftdoor, 0))
    \o getvector(root, DoorName(1), defnumbervector(v, rightdoor, 1))
    \o getvector(root, "DOOR_STATE", deflightvector(lightstatus))
    \o getvector(root, "DOME_SHUTTER", defswitchvector(lightstatus))

\* _Driver.respond for a getProperties: getvector of every item, in the
\* order of the items (left door, right door, lights, roof)
getproperties(v, root, leftdoor, rightdoor, lightstatus) ==
    IF root.version # "1.7" THEN <<>>
    ELSE getvector(root, DoorName(0), defnumbervector(v, leftdoor, 0))
         \o getvector(root, DoorName(1), defnumbervector(v, rightdoor, 1))
         \o getvector(root, "DOOR_STATE", deflightvector(lightstatus))
         \o getvector(root, "DOME_SHUTTER", defswitchvector(lightstatus))

(***************************************************************************)
(* picoserial.py: the bridge between redis and the serial port             *)
(***************************************************************************)
\* a message on the channel tx_to_pico: the byte string pre followed by the
\* decimal text suf (<<>> when nothing follows pre)
Data(pre, suf) == [pre |-> pre, suf |-> suf]

\* the f-strings of Door.startdoor and Door.update
DoorData(m) ==
    Data(IF m.door = 0
         THEN (IF m.cmd = "pwm" THEN "pico_door0_pwm_" ELSE "pico_door0_direction_")
         ELSE (IF m.cmd = "pwm" THEN "pico_door1_pwm_" ELSE "pico_door1_direction_"),
         str(m.value))

\* rconn.publish('tx_to_pico', ...): redis hands a message to the
\* subscribers there are; with picoserial.py not running it is dropped
publish(br, q, pubs) ==
    IF br \in {"off", "crashed"} THEN q
    ELSE q \o [i \in 1..Len(pubs) |-> DoorData(pubs[i])]

\* the redis keys set by picoserial.py ("" and -1: not set)
NoBus == [pico_led |-> "", pico_monitor |-> -1, pico_temperature |-> -1,
          pico_roofdoor0 |-> -1, pico_roofdoor1 |-> -1,
          pico_door0 |-> [i \in 1..5 |-> -1], pico_door1 |-> [i \in 1..5 |-> -1]]

NoBridgeOp == [op |-> "none", read |-> <<>>, data |-> Data("", <<>>)]

\* receiver: the parsing of a frame of four bytes
parse_frame(rv, b) ==
    LET led(x) == IF rv[2] = 25 /\ rv[3] = 0 THEN [x EXCEPT !.pico_led = "Off"]
                  ELSE IF rv[2] = 25 /\ rv[3] = 1 THEN [x EXCEPT !.pico_led = "On"]
                  ELSE x
        b1 == IF rv[1] = 1 THEN led(b) ELSE b
    IN  IF rv[1] = 2 THEN led(b1)
        ELSE IF rv[1] = 3 /\ rv[2] = 0 THEN [b1 EXCEPT !.pico_monitor = rv[3]]
        ELSE IF rv[1] = 5 THEN [b1 EXCEPT !.pico_temperature = rv[2] * 256 + rv[3]]
        ELSE IF rv[1] = 7
             THEN IF rv[2] = 1 THEN [b1 EXCEPT !.pico_roofdoor1 = rv[3]]
                  ELSE [b1 EXCEPT !.pico_roofdoor0 = rv[3]]
        ELSE IF rv[1] = 12
             THEN IF rv[2] \in 1..5 THEN [b1 EXCEPT !.pico_door0[rv[2]] = rv[3]] ELSE b1
        ELSE IF rv[1] = 13
             THEN IF rv[2] \in 1..5 THEN [b1 EXCEPT !.pico_door1[rv[2]] = rv[3]] ELSE b1
        ELSE b1

\* ser.read(n) with a timeout: the bytes that have arrived, at most n
ser_read(ser, n) == SubSeq(ser, 1, IF Len(ser) < n THEN Len(ser) ELSE n)
ser_rest(ser, n) == SubSeq(ser, (IF Len(ser) < n THEN Len(ser) ELSE n) + 1, Len(ser))

\* receiver that parses whatever it has read
receiver_mut(ser, b) ==
    LET returnval == ser_read(ser, 4)
        padded == [i \in 1..4 |-> IF i <= Len(returnval) THEN returnval[i] ELSE 0]
    IN  IF returnval = <<>> THEN [ser |-> ser, bus |-> b, pc |-> "message", read |-> returnval]
        ELSE [ser |-> ser_rest(ser, 4), bus |-> parse_frame(padded, b), pc |-> "message",
              read |-> returnval]

\* receiver(ser, rconn) up to its return or its entry into the resync loop
receiver(ser, b) ==
    LET returnval == ser_read(ser, 4)
        rest == ser_rest(ser, 4)
    IN  IF returnval = <<>> THEN [ser |-> ser, bus |-> b, pc |-> "message", read |-> returnval]
        ELSE IF Len(returnval) # 4
        THEN [ser |-> rest, bus |-> b, pc |-> "message", read |-> returnval]
        ELSE IF returnval[4] # Terminator
        THEN [ser |-> rest, bus |-> b, pc |-> "resync", read |-> returnval]
        ELSE [ser |-> rest, bus |-> parse_frame(returnval, b), pc |-> "message",
              read |-> returnval]

\* the tests of the resync loop on the bytes object getbyte that
\* Serial.read(1) returns (b'' after a timeout): "getbyte is None" and
\* "getbyte == 255", a bytes object compared with None and with an int
is_none(getbyte) == FALSE
eq_int(getbyte, n) == FALSE

\* one pass of the while True loop of receiver
resync_read(ser) ==
    LET getbyte == ser_read(ser, 1)
        rest == ser_rest(ser, 1)
    IN  IF is_none(getbyte) THEN [ser |-> rest, pc |-> "message", read |-> getbyte]
        ELSE IF eq_int(getbyte, Terminator)
        THEN [ser |-> rest, pc |-> "message", read |-> getbyte]
        ELSE [ser |-> rest, pc |-> "resync", read |-> getbyte]

\* the prefixes sender tests with startswith, per door, in the order of
\* their subcodes 1..5
SetPrefix0 == <<"pico_set_door0_fast_duration_", "pico_set_door0_duration_",
                "pico_set_door0_max_running_time_", "pico_set_door0_maximum_",
                "pico_set_door0_minimum_">>
SetPrefix1 == <<"pico_set_door1_fast_duration_", "pico_set_door1_duration_",
                "pico_set_door1_max_running_time_", "pico_set_door1_maximum_",
                "pico_set_door1_minimum_">>
GetPrefix0 == <<"pico_get_door0_fast_duration", "pico_get_door0_duration",
                "pico_get_door0_max_running_time", "pico_get_door0_maximum",
                "pico_get_door0_minimum">>
GetPrefix1 == <<"pico_get_door1_fast_duration", "pico_get_door1_duration",
                "pico_get_door1_max_running_time", "pico_get_door1_maximum",
                "pico_get_door1_minimum">>

IndexOf(seq, x) == IF \E i \in 1..Len(seq) : seq[i] = x
                   THEN CHOOSE i \in 1..Len(seq) : seq[i] = x ELSE 0

\* bytes([a, b, value, 255]); int(b'') and a value outside 0..255 raise
\* ValueError
frame(a, b, suf) ==
    IF suf = <<>> \/ int(suf) > 255
    THEN [writes |-> <<>>, raised |-> TRUE]
    ELSE [writes |-> << <<a, b, int(suf), Terminator>> >>, raised |-> FALSE]

\* sender that leaves out the terminator of the led frames
serial_sender_mut(data, b) ==
    IF data.pre = "pico_led_On" /\ data.suf = <<>>
    THEN [writes |-> << <<1, 25, 1>> >>, raised |-> FALSE,
          bus |-> [b EXCEPT !.pico_led = "On"]]
    ELSE [writes |-> << <<1, 25, 0>> >>, raised |-> FALSE, bus |-> b]

\* sender(data, ser, rconn): the ser.write calls it makes, whether it
\* raises, and the redis keys afterwards
serial_sender(data, b) ==
    LET exact(x) == data.pre = x /\ data.suf = <<>>
        one(x, y, z) == [writes |-> << <<x, y, z, Terminator>> >>, raised |-> FALSE, bus |-> b]
        with(r) == [writes |-> r.writes, raised |-> r.raised, bus |-> b]
    IN  IF exact("pico_led_On")
        THEN [writes |-> << <<1, 25, 1, Terminator>> >>, raised |-> FALSE,
              bus |-> [b EXCEPT !.pico_led = "On"]]
        ELSE IF exact("pico_led_Off")
        THEN [writes |-> << <<1, 25, 0, Terminator>> >>, raised |-> FALSE,
              bus |-> [b EXCEPT !.pico_led = "Off"]]
        ELSE IF exact("pico_led") THEN one(2, 25, 0)
        ELSE IF data.pre = "pico_monitor_" THEN with(frame(3, 0, data.suf))
        ELSE IF exact("pico_temperature") THEN one(5, 4, 0)
        ELSE IF exact("pico_roof")
        THEN [writes |-> << <<6, 1, 0, Terminator>>, <<6, 1, 1, Terminator>> >>,
              raised |-> FALSE, bus |-> b]
        ELSE IF exact("pico_roof_open") THEN one(9, 0, 0)
        ELSE IF exact("pico_roof_close") THEN one(9, 0, 1)
        ELSE IF exact("pico_roof0_open") THEN one(8, 0, 0)
        ELSE IF exact("pico_roof0_close") THEN one(8, 0, 1)
        ELSE IF exact("pico_roof1_open") THEN one(8, 1, 0)
        ELSE IF exact("pico_roof1_close") THEN one(8, 1, 1)
        ELSE IF IndexOf(SetPrefix0, data.pre) # 0
        THEN with(frame(10, IndexOf(SetPrefix0, data.pre), data.suf))
        ELSE IF IndexOf(SetPrefix1, data.pre) # 0
        THEN with(frame(11, IndexOf(SetPrefix1, data.pre), data.suf))
        ELSE IF IndexOf(GetPrefix0, data.pre) # 0
        THEN one(12, IndexOf(GetPrefix0, data.pre), 0)
        ELSE IF IndexOf(GetPrefix1, data.pre) # 0
        THEN one(13, IndexOf(GetPrefix1, data.pre), 0)
        ELSE [writes |-> <<>>, raised |-> FALSE, bus |-> b]

(***************************************************************************)
(* _Driver.reader: the framing of the input stream                         *)
(*                                                                         *)
(* The bytes of the stream are modelled as a sequence of pieces: each      *)
(* piece stands for one or more bytes that stay together, and every        *)
(* boundary between pieces is a place where the stream can be split.  The  *)
(* pieces "<", ">", "/", "=", the quote and the white space are single     *)
(* bytes; "C3" and "A9" are the two bytes of one UTF-8 character.          *)
(***************************************************************************)
Quote == "\""
WhiteSpace == {" ", "\n"}
Markup == {"<", ">", "/", "=", Quote}
Entities == {"&gt;"}

\* TAGS, _STARTTAGS and _ENDTAGS
TAGS == << <<"get", "Properties">>, <<"new", "Text", "Vector">>,
           <<"new", "Number", "Vector">>, <<"new", "Switch", "Vector">>,
           <<"new", "BLOB", "Vector">> >>
STARTTAGS == [i \in 1..Len(TAGS) |-> <<"<">> \o TAGS[i]]
ENDTAGS == [i \in 1..Len(TAGS) |-> <<"<", "/">> \o TAGS[i] \o <<">">>]

\* the value of messagetagnumber when it is None
NoTag == -1

\* bytes.startswith and bytes.endswith
startswith(data, prefix) ==
    Len(data) >= Len(prefix) /\ SubSeq(data, 1, Len(prefix)) = prefix
endswith(data, suffix) ==
    Len(data) >= Len(suffix)
    /\ SubSeq(data, Len(data) - Len(suffix) + 1, Len(data)) = suffix

\* bytes.strip(): white space removed at both ends
RECURSIVE lstrip(_)
lstrip(data) ==
    IF data # <<>> /\ Head(data) \in WhiteSpace THEN lstrip(Tail(data)) ELSE data
RECURSIVE rstrip(_)
rstrip(data) ==
    IF data # <<>> /\ data[Len(data)] \in WhiteSpace
    THEN rstrip(SubSeq(data, 1, Len(data) - 1)) ELSE data
strip(data) == rstrip(lstrip(data))

\* the position of the first ">" of buf, 0 when it has none
find(buf) ==
    IF \E i \in 1..Len(buf) : buf[i] = ">"
    THEN CHOOSE i \in 1..Len(buf) : buf[i] = ">" /\ \A j \in 1..(i - 1) : buf[j] # ">"
    ELSE 0

\* the limit of the StreamReader and the n of reader.read(n), in pieces
\* (the library's limit is 65536 bytes, n is 32000)
StreamLimit == 32
ReadN == 15

\* a read that does not wait for the separator: whatever is buffered
readuntil_mut(buf) ==
    IF buf = <<>> THEN [ready |-> FALSE, data |-> <<>>, rest |-> buf]
    ELSE [ready |-> TRUE, data |-> buf, rest |-> <<>>]

\* data = await reader.readuntil(separator=b'>'), with reader.read(n=32000)
\* after a LimitOverrunError: ready is FALSE while the call waits for data
readuntil(buf) ==
    LET isep == find(buf)
        overrun == IF isep = 0 THEN Len(buf) > StreamLimit ELSE isep - 1 > StreamLimit
        n == IF Len(buf) < ReadN THEN Len(buf) ELSE ReadN
    IN  IF overrun
        THEN [ready |-> TRUE, data |-> SubSeq(buf, 1, n),
              rest |-> SubSeq(buf, n + 1, Len(buf))]
        ELSE IF isep = 0 THEN [ready |-> FALSE, data |-> <<>>, rest |-> buf]
        ELSE [ready |-> TRUE, data |-> SubSeq(buf, 1, isep),
              rest |-> SubSeq(buf, isep + 1, Len(buf))]

\* message.decode("utf-8"): the characters of the bytes; ok is FALSE where
\* decode raises (a byte of a two-byte character without its partner)
IsLead(byte) == byte = "C3"
IsTrail(byte) == byte = "A9"
NotTrail(byte) == ~IsTrail(byte)
decode(data) ==
    [ok |-> \A i \in 1..Len(data) :
               /\ IsLead(data[i]) => i < Len(data) /\ IsTrail(data[i + 1])
               /\ IsTrail(data[i]) => i > 1 /\ IsLead(data[i - 1]),
     chars |-> SelectSeq([i \in 1..Len(data) |->
                             IF IsLead(data[i]) THEN "U+00E9" ELSE data[i]], NotTrail)]

(***************************************************************************)
(* ET.fromstring: the parse of one element, character by character         *)
(***************************************************************************)
IsWord(ch) == ch \notin WhiteSpace \cup Markup \cup Entities

\* a character reference stands for its character
Unescape(ch) == IF ch = "&gt;" THEN ">" ELSE ch

RECURSIVE Concat(_)
Concat(chars) == IF chars = <<>> THEN "" ELSE Head(chars) \o Concat(Tail(chars))

NoNode == [tag |-> "", attrs |-> <<>>, text |-> <<>>, children |-> <<>>]

\* the state of the parser: where it is in the document (mode), the
\* elements that are open (stack, the innermost last), the tag name, the
\* attributes, the attribute name and the value being read, and the root
\* once it is closed
ParserStart ==
    [mode |-> "prolog", stack |-> <<>>, name |-> "", attrs |-> <<>>, aname |-> "",
     value |-> "", root |-> NoNode]
ParseError(st) == [st EXCEPT !.mode = "error"]

\* the start tag is read: its element is open
OpenElement(st) ==
    [st EXCEPT !.mode = "content",
               !.stack = Append(st.stack, [tag |-> st.name, attrs |-> st.attrs,
                                           text |-> <<>>, children |-> <<>>])]

\* the element node is closed: it is the root, or a child of the element
\* that is open around it
CloseElement(st, outer, node) ==
    IF outer = <<>>
    THEN [st EXCEPT !.mode = "epilog", !.stack = <<>>, !.root = node]
    ELSE [st EXCEPT !.mode = "content",
                    !.stack = [outer EXCEPT ![Len(outer)].children =
                                  Append(outer[Len(outer)].children, node)]]

\* the end tag </name> is read: it must close the innermost open element
EndTag(st) ==
    IF st.stack = <<>> \/ st.stack[Len(st.stack)].tag # st.name THEN ParseError(st)
    ELSE CloseElement(st, SubSeq(st.stack, 1, Len(st.stack) - 1), st.stack[Len(st.stack)])

\* the closing quote of an attribute value is read
EndValue(st) ==
    IF \E i \in 1..Len(st.attrs) : st.attrs[i][1] = st.aname THEN ParseError(st)
    ELSE [st EXCEPT !.mode = "afterquote",
                    !.attrs = Append(st.attrs, <<st.aname, st.value>>)]

\* a character of the content of the innermost open element: text is the
\* text before the first child
ContentChar(st, ch) ==
    IF st.stack[Len(st.stack)].children # <<>> THEN st
    ELSE [st EXCEPT !.stack[Len(st.stack)].text = Append(@, Unescape(ch))]

\* the parser reads the character ch
ParseChar(st, ch) ==
    CASE st.mode = "prolog" ->
            IF ch \in WhiteSpace THEN st
            ELSE IF ch = "<" THEN [st EXCEPT !.mode = "open"]
            ELSE ParseError(st)
      [] st.mode = "open" ->
            IF ch = "/" /\ st.stack # <<>> THEN [st EXCEPT !.mode = "closename", !.name = ""]
            ELSE IF IsWord(ch)
            THEN [st EXCEPT !.mode = "tagname", !.name = ch, !.attrs = <<>>]
            ELSE ParseError(st)
      [] st.mode = "tagname" ->
            IF IsWord(ch) THEN [st EXCEPT !.name = @ \o ch]
            ELSE IF ch \in WhiteSpace THEN [st EXCEPT !.mode = "attrs"]
            ELSE IF ch = ">" THEN OpenElement(st)
            ELSE IF ch = "/" THEN [st EXCEPT !.mode = "selfclose"]
            ELSE ParseError(st)
      [] st.mode = "attrs" ->
            IF ch \in WhiteSpace THEN st
            ELSE IF IsWord(ch) THEN [st EXCEPT !.mode = "attrname", !.aname = ch]
            ELSE IF ch = ">" THEN OpenElement(st)
            ELSE IF ch = "/" THEN [st EXCEPT !.mode = "selfclose"]
            ELSE ParseError(st)
      [] st.mode = "attrname" ->
            IF IsWord(ch) THEN [st EXCEPT !.aname = @ \o ch]
            ELSE IF ch \in WhiteSpace THEN [st EXCEPT !.mode = "eq"]
            ELSE IF ch = "=" THEN [st EXCEPT !.mode = "quote"]
            ELSE ParseError(st)
      [] st.mode = "eq" ->
            IF ch \in WhiteSpace THEN st
            ELSE IF ch = "=" THEN [st EXCEPT !.mode = "quote"]
            ELSE ParseError(st)
      [] st.mode = "quote" ->
            IF ch \in WhiteSpace THEN st
            ELSE IF ch = Quote THEN [st EXCEPT !.mode = "value", !.value = ""]
            ELSE ParseError(st)
      [] st.mode = "value" ->
            IF ch = Quote THEN EndValue(st)
            ELSE IF ch = "<" THEN ParseError(st)
            ELSE [st EXCEPT !.value = @ \o Unescape(ch)]
      [] st.mode = "afterquote" ->
            IF ch \in WhiteSpace THEN [st EXCEPT !.mode = "attrs"]
            ELSE IF ch = ">" THEN OpenElement(st)
            ELSE IF ch = "/" THEN [st EXCEPT !.mode = "selfclose"]
            ELSE ParseError(st)
      [] st.mode = "selfclose" ->
            IF ch = ">"
            THEN CloseElement(st, st.stack, [tag |-> st.name, attrs |-> st.attrs,
                                             text |-> <<>>, children |-> <<>>])
            ELSE ParseError(st)
      [] st.mode = "content" ->
            IF ch = "<" THEN [st EXCEPT !.mode = "open"] ELSE ContentChar(st, ch)
      [] st.mode = "closename" ->
            IF IsWord(ch) THEN [st EXCEPT !.name = @ \o ch]
            ELSE IF ch \in WhiteSpace /\ st.name # "" THEN [st EXCEPT !.mode = "closews"]
            ELSE IF ch = ">" THEN EndTag(st)
            ELSE ParseError(st)
      [] st.mode = "closews" ->
            IF ch \in WhiteSpace THEN st
            ELSE IF ch = ">" THEN EndTag(st)
            ELSE ParseError(st)
      [] st.mode = "epilog" ->
            IF ch \in WhiteSpace THEN st ELSE ParseError(st)
      [] OTHER -> st

\* the state of the parser after the characters from position i on; it
\* stops at the first error
RECURSIVE Parse(_, _, _)
Parse(st, chars, i) ==
    IF i > Len(chars) \/ st.mode = "error" THEN st
    ELSE Parse(ParseChar(st, chars[i]), chars, i + 1)

\* the result of the parse: the root, when the document is one element
Parsing(d, st) ==
    IF d.ok /\ st.mode = "epilog" THEN [ok |-> TRUE, node |-> st.root]
    ELSE [ok |-> FALSE, node |-> NoNode]
Decoded(d) == Parsing(d, Parse(ParserStart, d.chars, 1))

\* ET.fromstring(message.decode("utf-8")): ok is FALSE where one of the
\* two raises
fromstring(data) == Decoded(decode(data))

\* element.get(key): the value of the attribute, None without it
get(node, key) ==
    IF \E i \in 1..Len(node.attrs) : node.attrs[i][1] = key
    THEN node.attrs[CHOOSE i \in 1..Len(node.attrs) : node.attrs[i][1] = key][2]
    ELSE None

\* the text of a number: its leading zeros and its value
DigitValue == [ch \in {"0", "1", "2", "3", "4", "5", "6", "7", "8", "9"} |->
                 CASE ch = "0" -> 0 [] ch = "1" -> 1 [] ch = "2" -> 2 [] ch = "3" -> 3
                   [] ch = "4" -> 4 [] ch = "5" -> 5 [] ch = "6" -> 6 [] ch = "7" -> 7
                   [] ch = "8" -> 8 [] ch = "9" -> 9]
RECURSIVE Numeral(_, _, _)
Numeral(chars, zeros, value) ==
    IF chars = <<>> THEN <<zeros, value>>
    ELSE IF value = 0 /\ Head(chars) = "0" /\ Len(chars) > 1
    THEN Numeral(Tail(chars), zeros + 1, 0)
    ELSE Numeral(Tail(chars), zeros, 10 * value + DigitValue[Head(chars)])

\* the element as respond, getvector and newvector read it
Root(node) ==
    [tag |-> node.tag, device |-> get(node, "device"), name |-> get(node, "name"),
     version |-> get(node, "version"),
     children |-> [i \in 1..Len(node.children) |->
         [tag |-> node.children[i].tag,
          name |-> get(node.children[i], "name"),
          text |-> IF node.children[i].tag = "oneNumber"
                   THEN Numeral(strip(node.children[i].text), 0, 0)
                   ELSE Concat(strip(node.children[i].text))]]]

(***************************************************************************)
(* _Driver.reader: one pass of its loop on the data read                   *)
(***************************************************************************)
\* the index of the first start tag data starts with, NoTag without one
tagnumber(data) ==
    IF \E i \in 1..Len(STARTTAGS) : startswith(data, STARTTAGS[i])
    THEN (CHOOSE i \in 1..Len(STARTTAGS) :
              /\ startswith(data, STARTTAGS[i])
              /\ \A j \in 1..(i - 1) : ~startswith(data, STARTTAGS[j])) - 1
    ELSE NoTag

\* a reader that keeps a message that fails to parse
complete_mut(message) ==
    LET p == fromstring(message)
    IN  IF p.ok
        THEN [message |-> <<>>, messagetagnumber |-> NoTag, roots |-> <<Root(p.node)>>,
              outcome |-> "dispatched"]
        ELSE [message |-> message, messagetagnumber |-> tagnumber(message), roots |-> <<>>,
              outcome |-> "malformed"]

\* the message is complete: parse it and respond, or drop it
complete(message) ==
    LET p == fromstring(message)
    IN  IF p.ok
        THEN [message |-> <<>>, messagetagnumber |-> NoTag, roots |-> <<Root(p.node)>>,
              outcome |-> "dispatched"]
        ELSE [message |-> <<>>, messagetagnumber |-> NoTag, roots |-> <<>>,
              outcome |-> "malformed"]

\* a reader that keeps data that starts with no known tag
reader_mut(message, messagetagnumber, data) ==
    IF message = <<>>
    THEN LET stripped == strip(data)
             index == tagnumber(stripped)
         IN  IF index = NoTag
             THEN [message |-> stripped, messagetagnumber |-> 0, roots |-> <<>>,
                   outcome |-> "ignored"]
             ELSE IF endswith(stripped, <<"/", ">">>) THEN complete(stripped)
             ELSE [message |-> stripped, messagetagnumber |-> index, roots |-> <<>>,
                   outcome |-> "started"]
    ELSE LET appended == message \o data
         IN  IF endswith(appended, ENDTAGS[messagetagnumber + 1]) THEN complete(appended)
             ELSE [message |-> appended, messagetagnumber |-> messagetagnumber,
                   roots |-> <<>>, outcome |-> "appended"]

\* the body of the loop of reader for the data read: the new message and
\* tag number and the root passed to respond, if any
reader(message, messagetagnumber, data) ==
    IF message = <<>>
    THEN LET stripped == strip(data)
             index == tagnumber(stripped)
         IN  IF index = NoTag
             THEN [message |-> message, messagetagnumber |-> messagetagnumber,
                   roots |-> <<>>, outcome |-> "ignored"]
             ELSE IF endswith(stripped, <<"/", ">">>) THEN complete(stripped)
             ELSE [message |-> stripped, messagetagnumber |-> index, roots |-> <<>>,
                   outcome |-> "started"]
    ELSE LET appended == message \o data
         IN  IF endswith(appended, ENDTAGS[messagetagnumber + 1]) THEN complete(appended)
             ELSE [message |-> appended, messagetagnumber |-> messagetagnumber,
                   roots |-> <<>>, outcome |-> "appended"]

\* no input stream is modelled: the messages are handed over already parsed
NoInput == [kind |-> "none", bytes |-> <<>>, valid |-> <<>>]
NoRead == [data |-> <<>>, outcome |-> "none"]

(***************************************************************************)
(* Inputs                                                                  *)
(***************************************************************************)
OneNumber(name, text) == [tag |-> "oneNumber", name |-> name, text |-> text]
OneSwitch(name, text) == [tag |-> "oneSwitch", name |-> name, text |-> text]

NewNumberVector(name, children) ==
    [tag |-> "newNumberVector", device |-> Device, name |-> name, version |-> None,
     children |-> children]
NewSwitchVector(children) ==
    [tag |-> "newSwitchVector", device |-> Device, name |-> "DOME_SHUTTER",
     version |-> None, children |-> children]
GetProperties(version, device, name) ==
    [tag |-> "getProperties", device |-> device, name |-> name, version |-> version,
     children |-> <<>>]

NoRoot == [tag |-> "", device |-> "", name |-> "", version |-> None, children |-> <<>>]

\* the oneNumber lists a client sends to a six-parameter door
NumberInputs6 ==
    { <<OneNumber("MAXIMUM", str(50)), OneNumber("MINIMUM", str(50))>>,
      <<OneNumber("MAXIMUM", str(96)), OneNumber("MINIMUM", str(0))>>,
      <<OneNumber("MINIMUM", str(51)), OneNumber("MAXIMUM", str(60))>>,
      <<OneNumber("MINIMUM", str(0))>>,
      <<OneNumber("MINIMUM", str(5))>>,
      <<OneNumber("MINIMUM", <<1, 5>>)>>,
      <<OneNumber("MAXIMUM", str(60)), OneNumber("MINIMUM", str(50))>>,
      <<OneNumber("ACC_DURATION", str(3)), OneNumber("FAST_DURATION", str(4)),
        OneNumber("ACC_DURATION", str(1))>> }

\* the oneNumber lists a client sends to a five-parameter door
NumberInputs5 ==
    { <<OneNumber("MAXIMUM", str(50)), OneNumber("MINIMUM", str(50))>>,
      <<OneNumber("FAST_DURATION", str(8))>>,
      <<OneNumber("DURATION", str(10)), OneNumber("MINIMUM", str(95))>>,
      <<OneNumber("MAXIMUM", str(96))>>,
      <<OneNumber("MINIMUM", str(51)), OneNumber("MAXIMUM", str(60))>>,
      <<OneNumber("MINIMUM", str(0))>>,
      <<OneNumber("MINIMUM", str(5))>>,
      <<OneNumber("MINIMUM", <<1, 5>>)>>,
      <<OneNumber("FAST_DURATION", str(3)), OneNumber("DURATION", str(3)),
        OneNumber("MAX_RUNNING_TIME", str(4)), OneNumber("FAST_DURATION", str(1))>> }

NumberRoots(v) ==
    { NewNumberVector(DoorName(d), ch) :
          d \in Doors, ch \in (IF v = "six" THEN NumberInputs6 ELSE NumberInputs5) }

\* the getProperties messages of a client: each filter absent, matching, or
\* naming something else; the version absent, 1.7, or another one
GetRoots ==
    { GetProperties(ver, dev, nm) :
          ver \in {None, "1.7", "1.5"},
          dev \in {None, Device, "Rempi01 LED"},
          nm \in {None, "LEFT_DOOR", "DOOR_STATE", "DOME_SHUTTER", "LED"} }

SwitchNames == {"SHUTTER_OPEN", "SHUTTER_CLOSE"}
SwitchTexts == {"On", "Off"}
SwitchRoots ==
    { NewSwitchVector(<<OneSwitch(n, x)>>) : n \in SwitchNames, x \in SwitchTexts }
    \cup { NewSwitchVector(<<OneSwitch("SHUTTER_OPEN", x), OneSwitch("SHUTTER_CLOSE", y)>>) :
              x \in SwitchTexts, y \in SwitchTexts }

(***************************************************************************)
(* The state machine                                                       *)
(***************************************************************************)
\* the periodic tasks in the order asyncio.gather starts them; every task
\* sleeps 0.2 s between passes, so the event loop wakes them in this order
Tasks == <<"writer", "left", "right", "lights", "roof">>
DoorTask(d) == IF d = 1 THEN "right" ELSE "left"

NoOp == [op |-> "init", door |-> -1, root |-> NoRoot, msgs |-> <<>>, calls |-> <<>>]
\* history of a motion cycle: the last pwm value published (-1: none yet),
\* the running time it was published at, the value published before it,
\* whether the parameters were changed during the cycle, and the maximum
\* running time (in seconds) the door had when startdoor began the cycle
NoCycle == [last |-> -1, at |-> 0, prev |-> -1, changed |-> FALSE, cutoff |-> 0]

\* the state after driver() has built its objects and, in doordriver.py,
\* started the slow close of both doors; files[d] holds the lines of the
\* parameter file of door d
InitWith(v, files) ==
    LET built == [d \in Doors |->
                     read_parameters(v, NewDoor(IF v = "six" THEN DefaultSix ELSE DefaultFive),
                                     files[d])]
        started == [d \in Doors |->
                     IF v = "six" THEN startdoor_six(built[d], d, FALSE, TRUE, 0)
                     ELSE [door |-> built[d], pub |-> <<>>]]
    IN  /\ variant = v
        /\ now = 0
        /\ due = <<>>
        /\ door = [d \in Doors |-> started[d].door]
        /\ lights = "UNKNOWN"
        /\ roof = "UNKNOWN"
        /\ sender = <<>>
        /\ pub = started[0].pub \o started[1].pub
        /\ file = files
        /\ lastop = NoOp
        /\ cycle = [d \in Doors |->
                      [NoCycle EXCEPT !.cutoff = max_running_time(v, started[d].door.p)]]
        /\ ncmd = 0
        /\ rx = 0
        /\ running = TRUE

\* picoserial.py is not running: nothing subscribes to tx_to_pico
BridgeOff ==
    /\ bridge = "off"
    /\ tx = <<>>
    /\ serin = <<>>
    /\ written = <<>>
    /\ bus = NoBus
    /\ bridgeop = NoBridgeOp

\* no input stream: the steps Receive... stand for the reader
ReaderOff ==
    /\ input = NoInput
    /\ wire = <<>>
    /\ stream = <<>>
    /\ rmessage = <<>>
    /\ rtagnumber = NoTag
    /\ dispatched = <<>>
    /\ readop = NoRead
    /\ cuts = {}

DriverInit == (\E v \in {"six", "five"} : InitWith(v, [d \in Doors |-> <<>>])) /\ BridgeOff

Init == DriverInit /\ ReaderOff /\ LogOff /\ MonitorOff

\* the history of the motion cycle of door d after a step that took the
\* door from before to after, publishing pubs at time t
NextCycle(cy, before, after, pubs, t) ==
    LET pwms == SelectSeq(pubs, LAMBDA m : m.cmd = "pwm")   \* pubs of this door
        c1 == IF ~before.moving /\ after.moving
              THEN [NoCycle EXCEPT !.cutoff = max_running_time(variant, after.p)]
              ELSE cy
        c2 == IF after.p # before.p /\ after.moving
              THEN [c1 EXCEPT !.changed = TRUE] ELSE c1
    IN  IF pwms # <<>>
        THEN [c2 EXCEPT !.last = pwms[Len(pwms)].value, !.at = t - before.start_running,
                        !.prev = c2.last]
        ELSE c2

\* the sleep(0.2) of every periodic task expires.  The clock is read only
\* by the update of a moving door (as monotonic() - start_running), so the
\* periods in which both doors are at rest are not counted
Tick(limit) ==
    /\ running
    /\ due = <<>>
    /\ now < limit
    /\ Len(tx) + 2 <= MaxTx
    /\ now' = IF \E d \in Doors : door[d].moving THEN now + 1 ELSE now
    /\ rx' = 0
    /\ due' = Tasks
    /\ pub' = <<>>
    /\ lastop' = [NoOp EXCEPT !.op = "tick"]
    /\ UNCHANGED <<variant, door, lights, roof, sender, file, cycle, ncmd>>
    /\ UNCHANGED bridgevars
    /\ UNCHANGED readervars
    /\ UNCHANGED <<running, log>>
    /\ UNCHANGED monitorvars

\* one pass of the loop of Door.update of door d
DoorUpdate(d) ==
    /\ running
    /\ due # <<>> /\ Head(due) = DoorTask(d)
    /\ LET r == update(variant, door[d], d, now)
       IN  /\ door' = [door EXCEPT ![d] = r.door]
           /\ pub' = r.pub
           /\ cycle' = [cycle EXCEPT ![d] = NextCycle(cycle[d], door[d], r.door, r.pub, now)]
    /\ due' = Tail(due)
    /\ lastop' = [NoOp EXCEPT !.op = "update", !.door = d]
    /\ tx' = publish(bridge, tx, pub')
    /\ UNCHANGED <<variant, now, lights, roof, sender, file, ncmd, rx>>
    /\ UNCHANGED <<bridge, serin, written, bus, bridgeop>>
    /\ UNCHANGED readervars
    /\ UNCHANGED <<running, log>>
    /\ UNCHANGED monitorvars

\* one pass of the loop of StatusLights.update
LightsUpdate ==
    /\ running
    /\ due # <<>> /\ Head(due) = "lights"
    /\ LET r == lights_update(lights, door[0], door[1])
       IN  /\ lights' = r.status
           /\ sender' = AppendAll(sender, r.msgs)
           /\ log' = Logged(log, Len(r.msgs))
           /\ lastop' = [NoOp EXCEPT !.op = "lights", !.msgs = r.msgs]
    /\ due' = Tail(due)
    /\ pub' = <<>>
    /\ UNCHANGED <<variant, now, door, roof, file, cycle, ncmd, rx>>
    /\ UNCHANGED bridgevars
    /\ UNCHANGED readervars
    /\ UNCHANGED running
    /\ UNCHANGED monitorvars

\* one pass of the loop of Roof.update
RoofUpdate ==
    /\ running
    /\ due # <<>> /\ Head(due) = "roof"
    /\ LET r == roof_update(roof, lights)
       IN  /\ roof' = r.status
           /\ sender' = AppendAll(sender, r.msgs)
           /\ log' = Logged(log, Len(r.msgs))
           /\ lastop' = [NoOp EXCEPT !.op = "roof", !.msgs = r.msgs]
    /\ due' = Tail(due)
    /\ pub' = <<>>
    /\ UNCHANGED <<variant, now, door, lights, file, cycle, ncmd, rx>>
    /\ UNCHANGED bridgevars
    /\ UNCHANGED readervars
    /\ UNCHANGED running
    /\ UNCHANGED monitorvars

\* _Driver.writer: pops and writes every queued message, then sleeps
Writer ==
    /\ running
    /\ due # <<>> /\ Head(due) = "writer"
    /\ sender' = <<>>
    /\ log' = Written(log)
    /\ due' = Tail(due)
    /\ pub' = <<>>
    /\ lastop' = [NoOp EXCEPT !.op = "writer"]
    /\ UNCHANGED <<variant, now, door, lights, roof, file, cycle, ncmd, rx>>
    /\ UNCHANGED bridgevars
    /\ UNCHANGED readervars
    /\ UNCHANGED running
    /\ UNCHANGED monitorvars

\* _Driver.respond when the newvector of a door raises.  Door.newvector
\* raises before it stores or appends anything, and only on a command
\* addressed to it, which the door called before it has ignored: nothing has
\* changed when the exception leaves respond and reader, and with them
\* asyncio.gather and asyncio.run, which ends every task
Raise(root) ==
    /\ running' = FALSE
    /\ pub' = <<>>
    /\ lastop' = [op |-> "receive", door |-> -1, root |-> root, msgs |-> <<>>,
                  calls |-> <<>>]
    /\ UNCHANGED <<variant, now, due, door, lights, roof, sender, file, cycle, log>>
    /\ UNCHANGED bridgevars
    /\ UNCHANGED monitorvars

\* _Driver.respond: getvector of every item for a getProperties, newvector
\* of every item (left door, right door, lights, roof) for the other tags;
\* an exception raised in the loop of Roof.newvector ends every task too
Dispatch(root) ==
    LET query == root.tag = "getProperties"
        l == IF query THEN [door |-> door[0], msgs |-> <<>>, write |-> FALSE]
             ELSE newvector(variant, door[0], 0, root)
        r == IF query THEN [door |-> door[1], msgs |-> <<>>, write |-> FALSE]
             ELSE newvector(variant, door[1], 1, root)
        li == IF query THEN [status |-> lights, msgs |-> <<>>]
              ELSE lights_newvector(lights, root)
        rf == IF query THEN [left |-> door[0], right |-> door[1], msgs |-> <<>>,
                            pub |-> <<>>, calls |-> <<>>, raised |-> FALSE]
              ELSE roof_newvector(variant, l.door, r.door, root, li.status, now)
        msgs == IF query THEN getproperties(variant, root, door[0], door[1], lights)
                ELSE l.msgs \o r.msgs \o li.msgs \o rf.msgs
    IN  /\ running' = ~rf.raised
        /\ UNCHANGED monitorvars
        /\ door' = [d \in Doors |-> IF d = 0 THEN rf.left ELSE rf.right]
        /\ lights' = li.status
        /\ sender' = AppendAll(sender, msgs)
        /\ log' = Logged(log, Len(msgs))
        /\ pub' = rf.pub
        /\ file' = [d \in Doors |->
                      IF d = 0 /\ l.write THEN write_parameters(variant, l.door)
                      ELSE IF d = 1 /\ r.write THEN write_parameters(variant, r.door)
                      ELSE file[d]]
        /\ cycle' = [d \in Doors |->
                      NextCycle(cycle[d], door[d], IF d = 0 THEN rf.left ELSE rf.right,
                                <<>>, now)]
        /\ lastop' = [op |-> "receive", door |-> -1, root |-> root, msgs |-> msgs,
                      calls |-> rf.calls]
        /\ tx' = publish(bridge, tx, pub')
        /\ UNCHANGED <<variant, now, due, roof>>
        /\ UNCHANGED <<bridge, serin, written, bus, bridgeop>>

Respond(root) ==
    /\ running
    /\ IF /\ root.tag = "newNumberVector"
          /\ \E d \in Doors : newvector_raises(variant, door[d], d, root)
       THEN Raise(root)
       ELSE Dispatch(root)

\* the reader receives a newNumberVector
ReceiveNumber ==
    /\ ncmd < MaxCommands
    /\ rx < MaxPerTick
    /\ \E root \in NumberRoots(variant) : Respond(root)
    /\ ncmd' = ncmd + 1
    /\ rx' = rx + 1
    /\ UNCHANGED readervars

\* the reader receives a newSwitchVector
ReceiveSwitch ==
    /\ ncmd < MaxCommands
    /\ rx < MaxPerTick
    /\ \E root \in SwitchRoots : Respond(root)
    /\ ncmd' = ncmd + 1
    /\ rx' = rx + 1
    /\ UNCHANGED readervars

\* the reader receives a getProperties
ReceiveGet ==
    /\ ncmd < MaxCommands
    /\ rx < MaxPerTick
    /\ \E root \in GetRoots : Respond(root)
    /\ ncmd' = ncmd + 1
    /\ rx' = rx + 1
    /\ UNCHANGED readervars

Next ==
    \/ Tick(MaxNow)
    \/ \E d \in Doors : DoorUpdate(d)
    \/ LightsUpdate
    \/ RoofUpdate
    \/ Writer
    \/ ReceiveNumber
    \/ ReceiveSwitch

Spec == Init /\ [][Next]_vars

(***************************************************************************)
(* The drivers started with parameter files written by earlier runs:       *)
(* motion of the doors under many parameter sets, commanded through        *)
(* DOME_SHUTTER only                                                       *)
(***************************************************************************)
PwmLimits == { <<95, 5>>, <<2, 1>>, <<60, 50>>, <<95, 50>> }

\* parameter files of a six-parameter door, one text per line
Files6 ==
    { <<str(a), str(1), str(dc), str(1), str(m[1]), str(m[2])>> :
          a \in {1, 2, 4}, dc \in {1, 3}, m \in PwmLimits }

\* parameter files of a five-parameter door
Files5 ==
    { <<str(t[1]), str(t[2]), str(t[3]), str(m[1]), str(m[2])>> :
          t \in { <<1, 2, 3>>, <<1, 3, 4>>, <<2, 6, 7>>, <<0, 4, 5>>, <<3, 4, 6>> },
          m \in PwmLimits }

\* an absent file, a file of the wrong length, or a written file
ParamFiles(v) == { <<>>, <<str(1), str(2)>> } \cup (IF v = "six" THEN Files6 ELSE Files5)

InitMotion ==
    /\ \E v \in {"six", "five"} : \E f \in ParamFiles(v) : InitWith(v, [d \in Doors |-> f])
    /\ BridgeOff
    /\ ReaderOff
    /\ LogOff /\ MonitorOff

NextMotion ==
    \/ Tick(MaxMotionNow)
    \/ \E d \in Doors : DoorUpdate(d)
    \/ LightsUpdate
    \/ RoofUpdate
    \/ Writer
    \/ ReceiveSwitch

SpecMotion == InitMotion /\ [][NextMotion]_vars

(***************************************************************************)
(* Properties of the door motion (SpecMotion)                              *)
(***************************************************************************)
\* the step just taken was a pass of Door.update of door d
Updated(d) == lastop.op = "update" /\ lastop.door = d

\* the running time Door.update computed at its last pass
RunningTime(d) == now - door[d].start_running

\* the fail-safe cutoff of door d, in time units
Cutoff(d) == max_running_time(variant, door[d].p) * UnitsPerSecond

\* twice the time (in units) at which the acceleration ramp of the curve
\* ends and the full-speed phase begins, and twice the time at which the
\* full-speed phase ends
RampEnd2(v, p) ==
    IF v = "six" THEN 2 * p.acc_duration * UnitsPerSecond
    ELSE (p.duration - p.fast_duration) * UnitsPerSecond
PlateauEnd2(v, p) ==
    IF v = "six" THEN 2 * (p.acc_duration + p.fast_duration) * UnitsPerSecond
    ELSE (p.duration + p.fast_duration) * UnitsPerSecond

\* the travel duration of a door, in seconds: the duration parameter of
\* doors.py, the variable duration of curve() in doordriver.py
TravelDuration(v, p) ==
    IF v = "six" THEN p.acc_duration + p.fast_duration + p.dec_duration
    ELSE p.duration

\* C1 as stated: the first update at which the running time has reached the
\* cutoff stops the door (moving false, pwm_ratio 0, exactly one zero-pwm
\* command published), and every update of a door at rest publishes
\* nothing and changes no state at all.
C1_StopThenNoChange ==
    [][\A d \in Doors : Updated(d)' =>
          /\ (door[d].moving /\ RunningTime(d) >= Cutoff(d))
                => /\ ~door'[d].moving
                   /\ door'[d].pwm_ratio = 0
                   /\ pub' = <<BusCmd(d, "pwm", 0)>>
          /\ ~door[d].moving => (pub' = <<>> /\ door' = door)]_vars

\* C1 amended: the first update at which the running time has reached the
\* cutoff stops the door (moving false, pwm_ratio 0, exactly one zero-pwm
\* command published); every later update before the next startdoor
\* publishes nothing and changes no state except that it clears the slow
\* flag of the door.
C1_StopThenIdle ==
    [][\A d \in Doors : Updated(d)' =>
          /\ (door[d].moving /\ RunningTime(d) >= Cutoff(d))
                => /\ ~door'[d].moving
                   /\ door'[d].pwm_ratio = 0
                   /\ pub' = <<BusCmd(d, "pwm", 0)>>
          /\ ~door[d].moving
                => /\ pub' = <<>>
                   /\ door' = [door EXCEPT ![d].slow = FALSE]]_vars

\* witness of C1: a door that was stopped by the cutoff has been updated
\* again while at rest
C1_Witness ==
    \E d \in Doors :
        /\ Updated(d) /\ ~door[d].moving /\ pub = <<>>
        /\ cycle[d].last = 0 /\ cycle[d].at >= Cutoff(d)

\* C2: a startdoor call made while the door is moving changes neither
\* direction, moving, start time, slow flag nor pwm_ratio of the door and
\* publishes nothing for it.
C2_StartWhileMovingNoOp ==
    [][\A d \in Doors :
          (/\ lastop'.op = "receive"
           /\ \E i \in 1..Len(lastop'.calls) : lastop'.calls[i].door = d
           /\ door[d].moving)
          => /\ door'[d] = door[d]
             /\ \A k \in 1..Len(pub') : pub'[k].door # d]_vars

\* witness of C2: the last command called startdoor on a door that was
\* already moving when the command arrived
C2_Witness ==
    /\ lastop.op = "receive"
    /\ lastop.calls # <<>>
    /\ lastop.calls[1].moving
    /\ door[lastop.calls[1].door].moving

\* C3 as stated: while a door is moving, the pwm value computed by update
\* is never below minimum and never above maximum.
C3_WithinMinMax ==
    \A d \in Doors : (Updated(d) /\ door[d].moving) =>
        /\ door[d].pwm_ratio >= door[d].p.minimum
        /\ door[d].pwm_ratio <= door[d].p.maximum

\* C3 amended: while a door is moving, the pwm value computed by update is
\* never above maximum, and once the acceleration ramp has ended it is
\* never below minimum (during the ramp it rises from 0).
C3_BelowMaxAndFloor ==
    \A d \in Doors : (Updated(d) /\ door[d].moving) =>
        /\ door[d].pwm_ratio <= door[d].p.maximum
        /\ 2 * RunningTime(d) >= RampEnd2(variant, door[d].p)
              => door[d].pwm_ratio >= door[d].p.minimum

\* witness of C3: a moving door past the deceleration runs at its floor,
\* minimum, which is neither 0 nor maximum
C3_Witness ==
    \E d \in Doors :
        /\ Updated(d) /\ door[d].moving
        /\ 2 * RunningTime(d) > PlateauEnd2(variant, door[d].p)
        /\ door[d].pwm_ratio = door[d].p.minimum
        /\ cycle[d].prev > door[d].p.minimum

\* C4 as stated: within one motion cycle with fixed parameters the pwm
\* values published are non-decreasing during the first half of the travel
\* duration and non-increasing during the second half.
C4_MonotoneHalves ==
    [][\A d \in Doors :
          (Updated(d)' /\ pub' # <<>> /\ cycle[d].last >= 0 /\ ~cycle[d].changed)
          => LET half2 == TravelDuration(variant, door[d].p) * UnitsPerSecond
             IN  /\ 2 * RunningTime(d) < half2 => cycle[d].last <= pub'[1].value
                 /\ 2 * cycle[d].at >= half2 => cycle[d].last >= pub'[1].value]_vars

\* C4 amended: within one motion cycle with fixed parameters the pwm values
\* published are non-decreasing up to the end of the full-speed phase and
\* non-increasing from the start of the full-speed phase on.
C4_MonotoneRamps ==
    [][\A d \in Doors :
          (Updated(d)' /\ pub' # <<>> /\ cycle[d].last >= 0 /\ ~cycle[d].changed)
          => /\ 2 * RunningTime(d) <= PlateauEnd2(variant, door[d].p)
                   => cycle[d].last <= pub'[1].value
             /\ 2 * cycle[d].at >= RampEnd2(variant, door[d].p)
                   => cycle[d].last >= pub'[1].value]_vars

\* witness of C4: a cycle in which a value was published on the way up and
\* a lower one on the way down
C4_Witness ==
    \E d \in Doors :
        /\ Updated(d) /\ door[d].moving /\ pub # <<>>
        /\ cycle[d].prev > cycle[d].last /\ cycle[d].last > door[d].p.minimum
        /\ 2 * cycle[d].at > PlateauEnd2(variant, door[d].p)

(***************************************************************************)
(* The status function of StatusLights applied to every pair of door       *)
(* states: the doors are given any direction and moving flag, the lights   *)
(* any earlier status, and the lights and roof tasks make one pass         *)
(***************************************************************************)
Statuses == {"OPEN", "OPENING", "CLOSING", "CLOSED", "UNKNOWN"}

InitStatus ==
    \E v \in {"six", "five"} : \E dl \in BOOLEAN, ml \in BOOLEAN,
                                  dr \in BOOLEAN, mr \in BOOLEAN, old \in Statuses :
        LET p == IF v = "six" THEN DefaultSix ELSE DefaultFive
        IN  /\ variant = v
            /\ now = 0
            /\ due = <<"lights", "roof">>
            /\ door = [d \in Doors |->
                         [NewDoor(p) EXCEPT !.direction = IF d = 0 THEN dl ELSE dr,
                                            !.moving = IF d = 0 THEN ml ELSE mr]]
            /\ lights = old
            /\ roof = old
            /\ sender = <<>>
            /\ pub = <<>>
            /\ file = [d \in Doors |-> <<>>]
            /\ lastop = NoOp
            /\ cycle = [d \in Doors |-> NoCycle]
            /\ ncmd = 0
            /\ rx = 0
            /\ running = TRUE
            /\ LogOff /\ MonitorOff
            /\ BridgeOff
            /\ ReaderOff

NextStatus ==
    \/ LightsUpdate
    \/ RoofUpdate

SpecStatus == InitStatus /\ [][NextStatus]_vars

(***************************************************************************)
(* Properties of the door parameters (Spec)                                *)
(***************************************************************************)
\* the step just taken handled a newNumberVector addressed to door d
ReceivedNumber(d) ==
    /\ lastop.op = "receive"
    /\ lastop.root.tag = "newNumberVector"
    /\ lastop.root.device = Device
    /\ lastop.root.name = DoorName(d)

\* the name of the oneNumber element that sets the attribute f
NameOf(v, f) == Names(v)[CHOOSE i \in 1..Len(Fields(v)) : Fields(v)[i] = f]

\* the value a command asks for an element: that of the last oneNumber of
\* that name, or the current value when the command does not name it
Asked(root, name, cur) ==
    LET idx == {k \in 1..Len(root.children) : root.children[k].name = name}
    IN  IF idx = {} THEN cur
        ELSE int(root.children[CHOOSE k \in idx : \A j \in idx : j <= k].text)

\* the parameters door dr would have if the command were applied
AskedParams(v, dr, root) == [f \in DOMAIN dr.p |-> Asked(root, NameOf(v, f), dr.p[f])]

\* the constraints on the parameters a, in their order, with the reason
\* reported when one is violated
ConstraintList(v, a) ==
    << [ok |-> a.fast_duration < TravelDuration(v, a),
        reason |-> "High speed duration must be shorter than the duration of travel"],
       [ok |-> TravelDuration(v, a) < max_running_time(v, a),
        reason |-> "The maximum running time must be longer than the duration of travel"],
       [ok |-> a.minimum < a.maximum,
        reason |-> "The maximum pwm must be greater than the minimum"],
       [ok |-> a.maximum <= 95, reason |-> "The maximum pwm is 95 max"],
       [ok |-> a.minimum <= 50, reason |-> "The minimum pwm is 50 max"],
       [ok |-> a.minimum >= 1, reason |-> "The minimum pwm is 1"] >>

Violations(v, a) == {k \in 1..6 : ~ConstraintList(v, a)[k].ok}

FirstReason(v, a) ==
    ConstraintList(v, a)[CHOOSE k \in Violations(v, a) :
                            \A j \in Violations(v, a) : k <= j].reason

\* C5 as stated: a newNumberVector whose values violate a constraint is
\* rejected as a whole: exactly one setNumberVector with state Alert and no
\* oneNumber child is enqueued, every stored parameter keeps its value and
\* the parameter file is not rewritten.
C5_ViolationRejectedWhole ==
    [][\A d \in Doors :
          (ReceivedNumber(d)'
           /\ Violations(variant, AskedParams(variant, door[d], lastop'.root)) # {})
          => /\ Len(lastop'.msgs) = 1
             /\ lastop'.msgs[1].tag = "setNumberVector"
             /\ lastop'.msgs[1].state = "Alert"
             /\ lastop'.msgs[1].children = <<>>
             /\ sender' = Append100(sender, lastop'.msgs[1])
             /\ door'[d].p = door[d].p
             /\ file'[d] = file[d]]_vars

\* C6 as stated: the stored parameters of a five-parameter door always
\* satisfy fast_duration < duration < max_running_time, minimum < maximum,
\* maximum <= 95, minimum <= 50 and minimum >= 1.
C6_FiveParameterInvariant ==
    variant = "five" =>
        \A d \in Doors :
            LET p == door[d].p
            IN  /\ p.fast_duration < p.duration
                /\ p.duration < p.max_running_time
                /\ p.minimum < p.maximum
                /\ p.maximum <= 95
                /\ p.minimum <= 50
                /\ p.minimum >= 1

\* C7: the stored pwm limits of a six-parameter door always satisfy
\* 1 <= minimum < maximum <= 95 and minimum <= 50.
C7_SixParameterLimits ==
    variant = "six" =>
        \A d \in Doors :
            LET p == door[d].p
            IN  /\ 1 <= p.minimum
                /\ p.minimum < p.maximum
                /\ p.maximum <= 95
                /\ p.minimum <= 50

\* witness of C7: a six-parameter door has accepted new limits, with
\* minimum at its upper bound 50
C7_Witness ==
    /\ variant = "six"
    /\ \E d \in Doors :
          /\ ReceivedNumber(d)
          /\ lastop.msgs[1].state = "Ok"
          /\ lastop.msgs[1].children # <<>>
          /\ door[d].p.minimum = 50
          /\ door[d].p.maximum = 60

\* C8 as stated: when a newNumberVector violates one or more constraints,
\* the reply is an Alert whose message is the reason of the first violated
\* constraint in the order fast < travel, travel < cutoff, minimum < maximum,
\* maximum <= 95, minimum <= 50, minimum >= 1.
C8_FirstViolatedReason ==
    [][\A d \in Doors :
          LET a == AskedParams(variant, door[d], lastop'.root)
          IN  (ReceivedNumber(d)' /\ Violations(variant, a) # {})
              => /\ lastop'.msgs # <<>>
                 /\ lastop'.msgs[1].state = "Alert"
                 /\ lastop'.msgs[1].message = FirstReason(variant, a)]_vars

\* C9: an accepted newNumberVector merges the provided elements over the
\* current values: a command whose merged values satisfy every constraint
\* is answered with state Ok, and whenever the answer has state Ok every
\* parameter holds the value the command asks for (its prior value when
\* the command does not name it) and the answer has one oneNumber child,
\* carrying the new value, for exactly the elements whose stored value
\* changed.
C9_AcceptMergesReportsChanges ==
    [][\A d \in Doors :
          LET a == AskedParams(variant, door[d], lastop'.root)
              reply == lastop'.msgs[1]
              changed == {f \in DOMAIN door[d].p : door'[d].p[f] # door[d].p[f]}
          IN  ReceivedNumber(d)'
              => /\ Len(lastop'.msgs) = 1
                 /\ Violations(variant, a) = {} => reply.state = "Ok"
                 /\ reply.state = "Ok"
                    => /\ door'[d].p = a
                       /\ Len(reply.children) = Cardinality(changed)
                       /\ \A f \in changed :
                             \E k \in 1..Len(reply.children) :
                                /\ reply.children[k].name = NameOf(variant, f)
                                /\ int(reply.children[k].text) = door'[d].p[f]]_vars

\* witness of C9: an Ok answer to a command of three elements, one of them
\* naming the stored value, that reports a single changed element
C9_Witness ==
    \E d \in Doors :
        /\ ReceivedNumber(d)
        /\ lastop.msgs[1].state = "Ok"
        /\ Len(lastop.root.children) = 3
        /\ Len(lastop.msgs[1].children) = 1
        /\ int(lastop.msgs[1].children[1].text) = door[d].p.acc_duration

(***************************************************************************)
(* Properties of the status lights (SpecStatus)                            *)
(***************************************************************************)
\* C10: the status computed by a pass of StatusLights.update is OPEN when
\* both doors are open-bound and neither moves, OPENING when both are
\* open-bound and either moves, CLOSED when both are close-bound and neither
\* moves, CLOSING when both are close-bound and either moves, and UNKNOWN
\* when the directions differ; a change to UNKNOWN is reported with state
\* Alert and the UNKNOWN light at Alert.
C10_StatusFunction ==
    lastop.op = "lights" =>
        LET l == door[0]
            r == door[1]
            either == l.moving \/ r.moving
        IN  /\ (l.direction /\ r.direction /\ ~either) => lights = "OPEN"
            /\ (l.direction /\ r.direction /\ either) => lights = "OPENING"
            /\ (~l.direction /\ ~r.direction /\ ~either) => lights = "CLOSED"
            /\ (~l.direction /\ ~r.direction /\ either) => lights = "CLOSING"
            /\ (l.direction # r.direction) => lights = "UNKNOWN"
            /\ (lights = "UNKNOWN" /\ lastop.msgs # <<>>)
                  => /\ lastop.msgs[1].state = "Alert"
                     /\ lastop.msgs[1].children[5].name = "UNKNOWN"
                     /\ lastop.msgs[1].children[5].text = "Alert"
            /\ (lights # "UNKNOWN" /\ lastop.msgs # <<>>)
                  => lastop.msgs[1].state = "Ok"

\* witness of C10: doors whose directions differ, one of them moving, have
\* been reported as UNKNOWN
C10_Witness ==
    /\ lastop.op = "lights"
    /\ door[0].direction # door[1].direction
    /\ door[0].moving # door[1].moving
    /\ lights = "UNKNOWN"
    /\ lastop.msgs # <<>>

(***************************************************************************)
(* The bridge picoserial.py: its main loop, the pico and the other         *)
(* publishers on tx_to_pico                                                *)
(***************************************************************************)
\* the pico puts bytes on the serial line
PicoSends(bytes) ==
    /\ bridge # "off"
    /\ Len(serin) + Len(bytes) <= MaxSerial
    /\ serin' = serin \o bytes
    /\ pub' = <<>>
    /\ lastop' = [NoOp EXCEPT !.op = "pico"]
    /\ UNCHANGED <<variant, now, due, door, lights, roof, sender, file, cycle, ncmd, rx>>
    /\ UNCHANGED <<bridge, tx, written, bus, bridgeop>>
    /\ UNCHANGED readervars
    /\ UNCHANGED <<running, log>>
    /\ UNCHANGED monitorvars

\* a process other than the door driver publishes data on tx_to_pico
ClientPublishes(data) ==
    /\ bridge \notin {"off", "crashed"}
    /\ Len(tx) + 3 <= MaxTx
    /\ tx' = Append(tx, data)
    /\ pub' = <<>>
    /\ lastop' = [NoOp EXCEPT !.op = "publish"]
    /\ UNCHANGED <<variant, now, due, door, lights, roof, sender, file, cycle, ncmd, rx>>
    /\ UNCHANGED <<bridge, serin, written, bus, bridgeop>>
    /\ UNCHANGED readervars
    /\ UNCHANGED <<running, log>>
    /\ UNCHANGED monitorvars

\* the main loop calls receiver(ser, rconn)
BridgeReceiver ==
    /\ bridge = "receive"
    /\ LET r == receiver(serin, bus)
       IN  /\ serin' = r.ser
           /\ bus' = r.bus
           /\ bridge' = r.pc
           /\ bridgeop' = [NoBridgeOp EXCEPT !.op = "receiver", !.read = r.read]
    /\ written' = <<>>
    /\ pub' = <<>>
    /\ lastop' = [NoOp EXCEPT !.op = "bridge"]
    /\ UNCHANGED <<variant, now, due, door, lights, roof, sender, file, cycle, ncmd, rx, tx>>
    /\ UNCHANGED readervars
    /\ UNCHANGED <<running, log>>
    /\ UNCHANGED monitorvars

\* one pass of the resync loop inside receiver
BridgeResync ==
    /\ bridge = "resync"
    /\ LET r == resync_read(serin)
       IN  /\ serin' = r.ser
           /\ bridge' = r.pc
           /\ bridgeop' = [NoBridgeOp EXCEPT !.op = "resync", !.read = r.read]
    /\ written' = <<>>
    /\ pub' = <<>>
    /\ lastop' = [NoOp EXCEPT !.op = "bridge"]
    /\ UNCHANGED <<variant, now, due, door, lights, roof, sender, file, cycle, ncmd, rx,
                   tx, bus>>
    /\ UNCHANGED readervars
    /\ UNCHANGED <<running, log>>
    /\ UNCHANGED monitorvars

\* the main loop calls ps.get_message() and, with a message, sender; an
\* exception raised by sender ends the process
BridgeMessage ==
    /\ bridge = "message"
    /\ IF tx = <<>>
       THEN /\ bridge' = "receive"
            /\ written' = <<>>
            /\ bridgeop' = [NoBridgeOp EXCEPT !.op = "idle"]
            /\ UNCHANGED <<tx, bus>>
       ELSE LET r == serial_sender(Head(tx), bus)
            IN  /\ tx' = Tail(tx)
                /\ written' = r.writes
                /\ bus' = r.bus
                /\ bridge' = IF r.raised THEN "crashed" ELSE "receive"
                /\ bridgeop' = [NoBridgeOp EXCEPT !.op = "sender", !.data = Head(tx)]
    /\ pub' = <<>>
    /\ lastop' = [NoOp EXCEPT !.op = "bridge"]
    /\ UNCHANGED <<variant, now, due, door, lights, roof, sender, file, cycle, ncmd, rx,
                   serin>>
    /\ UNCHANGED readervars
    /\ UNCHANGED <<running, log>>
    /\ UNCHANGED monitorvars

\* picoserial.py has entered its main loop (after the led flashes of its
\* start, the last of which sets pico_led to Off) and holds the messages
\* the door driver published at its own start
BridgeOn ==
    /\ bridge = "receive"
    /\ tx = publish("receive", <<>>, pub)
    /\ serin = <<>>
    /\ written = <<>>
    /\ bus = [NoBus EXCEPT !.pico_led = "Off"]
    /\ bridgeop = NoBridgeOp

\* what the pico sends: well-formed frames, a frame with a wrong
\* terminator, and the fragments a lost byte leaves
DoorFrames == { <<7, 0, 1, Terminator>>, <<7, 1, 3, Terminator>>,
                <<7, 0, 3, Terminator>>, <<7, 1, 1, Terminator>> }
PicoBytes == { <<7, 1, 3, Terminator>>, <<1, 25, 1, Terminator>>,
               <<3, 0, 7, Terminator>>, <<7, 0, 1, 0>>, <<7, 1>>, <<Terminator>> }

\* what the other drivers and a maintenance client publish on tx_to_pico
Commands == { Data("pico_led_On", <<>>), Data("pico_led", <<>>),
              Data("pico_monitor_", str(7)), Data("pico_monitor_", <<>>),
              Data("pico_temperature", <<>>), Data("pico_roof", <<>>),
              Data("pico_roof_close", <<>>), Data("pico_roof1_open", <<>>),
              Data("pico_set_door0_maximum_", str(95)),
              Data("pico_set_door1_duration_", str(300)),
              Data("pico_get_door1_minimum", <<>>),
              Data("pico_door0_pwm_", str(50)), Data("pico_reset", <<>>) }

InitSerial ==
    /\ InitWith("six", [d \in Doors |-> <<>>])
    /\ BridgeOn
    /\ ReaderOff
    /\ LogOff /\ MonitorOff

InitBridge ==
    /\ \E v \in {"six", "five"} : InitWith(v, [d \in Doors |-> <<>>])
    /\ BridgeOn
    /\ ReaderOff
    /\ LogOff /\ MonitorOff

NextSerial ==
    \/ \E bytes \in PicoBytes : PicoSends(bytes)
    \/ \E data \in Commands : ClientPublishes(data)
    \/ BridgeReceiver
    \/ BridgeResync
    \/ BridgeMessage

SpecSerial == InitSerial /\ [][NextSerial]_vars

(***************************************************************************)
(* The door driver and the bridge together: the doors commanded through    *)
(* DOME_SHUTTER, their commands taken from tx_to_pico by the bridge        *)
(***************************************************************************)
NextBridge ==
    \/ Tick(MaxNow)
    \/ \E d \in Doors : DoorUpdate(d)
    \/ LightsUpdate
    \/ RoofUpdate
    \/ Writer
    \/ ReceiveSwitch
    \/ BridgeReceiver
    \/ BridgeMessage

SpecBridge == InitBridge /\ [][NextBridge]_vars

(***************************************************************************)
(* The door driver and the bridge together: the pico reports the limit     *)
(* switches of the doors while the driver runs without commands            *)
(***************************************************************************)
NextLimit ==
    \/ Tick(MaxNow)
    \/ \E d \in Doors : DoorUpdate(d)
    \/ LightsUpdate
    \/ RoofUpdate
    \/ Writer
    \/ \E bytes \in DoorFrames : PicoSends(bytes)
    \/ BridgeReceiver
    \/ BridgeMessage

SpecLimit == InitBridge /\ [][NextLimit]_vars

(***************************************************************************)
(* Properties of the serial bridge                                         *)
(***************************************************************************)
\* the step just taken was a step of the bridge of the given kind
Bridged(op) == lastop.op = "bridge" /\ bridgeop.op = op

\* the prefixes of the commands a Door publishes
DoorPrefixes == {"pico_door0_pwm_", "pico_door0_direction_",
                 "pico_door1_pwm_", "pico_door1_direction_"}

\* C11 as stated: with the limit-switch codes 1 (open) and 3 (closed) of
\* the two doors on the Bus at the same time, the status computed by a pass
\* of StatusLights.update is UNKNOWN.
C11_ConflictIsUnknown ==
    (/\ lastop.op = "lights"
     /\ {bus.pico_roofdoor0, bus.pico_roofdoor1} = {1, 3})
    => lights = "UNKNOWN"

\* C12 as stated: in the resync loop of receiver, a single-byte read that
\* returns the terminator 0xFF, or that times out with no data, ends the
\* loop, and receiver returns to the main loop.
C12_ResyncTerminates ==
    [][(Bridged("resync")'
        /\ (bridgeop'.read = <<Terminator>> \/ bridgeop'.read = <<>>))
       => bridge' = "message"]_vars

\* C13 as stated: every door command published by a Door (set direction,
\* set pwm ratio) that the bridge takes from tx_to_pico is written by
\* sender to the serial port as one frame of four bytes.
C13_DoorCommandWritten ==
    [][(Bridged("sender")' /\ bridgeop'.data.pre \in DoorPrefixes)
       => /\ Len(written') = 1
          /\ Len(written'[1]) = 4
          /\ written'[1][4] = Terminator]_vars

\* C14: every write sender makes to the serial port is one frame of four
\* bytes [command, subcode, value, 0xFF], each a byte, the fourth 0xFF.
C14_WritesAreFrames ==
    \A i \in 1..Len(written) :
        /\ Len(written[i]) = 4
        /\ \A k \in 1..4 : written[i][k] \in 0..255
        /\ written[i][4] = 255

\* witness of C14: sender has handled pico_roof, the command that makes two
\* writes
C14_Witness ==
    /\ Bridged("sender")
    /\ bridgeop.data.pre = "pico_roof"
    /\ Len(written) = 2
    /\ written[1] # written[2]

\* C15: a receiver call that reads fewer than four bytes before the
\* timeout, or four bytes of which the fourth is not 0xFF, sets no redis
\* key, neither at once nor while it reads single bytes to resynchronise.
C15_BadFrameSetsNothing ==
    [][/\ (Bridged("receiver")'
           /\ (Len(bridgeop'.read) < 4 \/ bridgeop'.read[4] # 255))
          => bus' = bus
       /\ Bridged("resync")' => bus' = bus]_vars

\* witness of C15: receiver has read four bytes that name a door status
\* but end in a wrong terminator, after a frame that set a key
C15_Witness ==
    /\ Bridged("receiver")
    /\ Len(bridgeop.read) = 4
    /\ bridgeop.read[1] = 7
    /\ bridgeop.read[4] # 255
    /\ bus.pico_roofdoor1 = 3
    /\ bus.pico_roofdoor0 = -1

(***************************************************************************)
(* The door driver answering getProperties while the doors move            *)
(***************************************************************************)
NextGet ==
    \/ Tick(MaxNow)
    \/ \E d \in Doors : DoorUpdate(d)
    \/ LightsUpdate
    \/ RoofUpdate
    \/ Writer
    \/ ReceiveGet
    \/ ReceiveSwitch

SpecGet == Init /\ [][NextGet]_vars

(***************************************************************************)
(* Properties of getProperties (SpecGet)                                   *)
(***************************************************************************)
\* the step just taken handled a getProperties
ReceivedGet == lastop.op = "receive" /\ lastop.root.tag = "getProperties"

\* the names of the vectors of the driver
VectorNames == {"LEFT_DOOR", "RIGHT_DOOR", "DOOR_STATE", "DOME_SHUTTER"}

\* the definitions of the vector of that name among the messages msgs
Definitions(msgs, name) ==
    {i \in 1..Len(msgs) :
        /\ msgs[i].tag \in {"defNumberVector", "defLightVector", "defSwitchVector"}
        /\ msgs[i].device = Device
        /\ msgs[i].name = name}

\* C19 as stated: a vector answers a getProperties (of version 1.7) with
\* its definition if and only if the device filter is absent or names its
\* device and the name filter is absent or names the vector; a name that
\* does not match gives no definition, also when no device is given.
C19_AnswersIffFiltersMatch ==
    (ReceivedGet /\ lastop.root.version = "1.7")
    => \A n \in VectorNames :
          LET matches == /\ lastop.root.device \in {None, Device}
                         /\ lastop.root.name \in {None, n}
          IN  Cardinality(Definitions(lastop.msgs, n)) = IF matches THEN 1 ELSE 0

\* C20: a getProperties whose version is absent or is not 1.7 is ignored:
\* nothing is appended to sender, no state of the doors, the lights or the
\* roof changes, no file is written and nothing is published.
C20_OtherVersionIgnored ==
    [][(ReceivedGet' /\ lastop'.root.version # "1.7")
       => /\ lastop'.msgs = <<>>
          /\ sender' = sender
          /\ door' = door /\ lights' = lights /\ roof' = roof /\ file' = file
          /\ pub' = <<>> /\ tx' = tx]_vars

\* witness of C20: a getProperties of version 1.5 for all devices arrived
\* while the doors move, and sender stayed empty
C20_Witness ==
    /\ ReceivedGet
    /\ lastop.root.version = "1.5"
    /\ lastop.root.device = None /\ lastop.root.name = None
    /\ door[0].moving
    /\ sender = <<>>

(***************************************************************************)
(* The input stream of the door driver                                     *)
(***************************************************************************)
Attr(name, value) == <<" ", name, "=", Quote>> \o value \o <<Quote>>
DeviceBytes == <<"Roll", " ", "off", " ", "door">>
Version17 == Attr("version", <<"1.", "7">>)

\* <getProperties version="1.7" />
MsgGet == <<"<", "get", "Properties">> \o Version17 \o <<" ", "/", ">">>
\* <getProperties version="1.7" device="Roll off door" name="LEFT_DOOR"/>
MsgGetDoor ==
    <<"<", "get", "Properties">> \o Version17 \o Attr("device", DeviceBytes)
    \o Attr("name", <<"LEFT", "_DOOR">>) \o <<"/", ">">>
\* <getProperties version="1.7"></getProperties>
MsgGetOpen ==
    <<"<", "get", "Properties">> \o Version17 \o <<">", "<", "/", "get", "Properties", ">">>
\* <getProperties version="1.7" device="a&gt;b" />
MsgGetEntity ==
    <<"<", "get", "Properties">> \o Version17 \o Attr("device", <<"a", "&gt;", "b">>)
    \o <<" ", "/", ">">>
\* <getProperties version="1.7" device="é" />, é sent as its two bytes
MsgGetUtf8 ==
    <<"<", "get", "Properties">> \o Version17 \o Attr("device", <<"C3", "A9">>)
    \o <<" ", "/", ">">>
\* <newNumberVector device="Roll off door" name="LEFT_DOOR">
\*   <oneNumber name="MAXIMUM">...</oneNumber>
\* </newNumberVector>
MsgNumberOf(text) ==
    <<"<", "new", "Number", "Vector">> \o Attr("device", DeviceBytes)
    \o Attr("name", <<"LEFT", "_DOOR">>) \o <<">", "\n", " ", "<", "one", "Number">>
    \o Attr("name", <<"MAXI", "MUM">>) \o <<">">> \o text
    \o <<"<", "/", "one", "Number", ">", "\n", "<", "/", "new", "Number", "Vector", ">">>
MsgNumber == MsgNumberOf(<<"6", "0">>)
\* the same with white space around the number, longer than the limit of
\* the stream
MsgNumberLong == MsgNumberOf([i \in 1..(StreamLimit + 2) |-> " "] \o <<"6", "0", "\n">>)
\* <newSwitchVector device="Roll off door" name="DOME_SHUTTER">
\*   <oneSwitch name="SHUTTER_OPEN">On</oneSwitch></newSwitchVector>
MsgSwitch ==
    <<"<", "new", "Switch", "Vector">> \o Attr("device", DeviceBytes)
    \o Attr("name", <<"DOME", "_SHUTTER">>) \o <<">", "<", "one", "Switch">>
    \o Attr("name", <<"SHUTTER", "_OPEN">>)
    \o <<">", "On", "<", "/", "one", "Switch", ">", "<", "/", "new", "Switch", "Vector", ">">>

\* the messages of the driver's tags, as an XML writer produces them: ">"
\* ends a tag, and inside a value it is written &gt;
ValidMessages ==
    {MsgGet, MsgGetDoor, MsgGetOpen, MsgGetEntity, MsgGetUtf8, MsgNumber, MsgNumberLong,
     MsgSwitch, <<"\n", " ">> \o MsgGet \o <<"\n">>}

\* messages of other tags:
\* <enableBLOB device="Roll off door">Never</enableBLOB> and <foo />
MsgEnableBLOB ==
    <<"<", "enable", "BLOB">> \o Attr("device", DeviceBytes)
    \o <<">", "Never", "<", "/", "enable", "BLOB", ">">>
MsgFoo == <<"<", "foo", " ", "/", ">">>
UnrecognisedMessages == {MsgEnableBLOB, MsgFoo, MsgFoo \o <<"\n">> \o MsgEnableBLOB}

\* malformed input that begins with a known start tag:
\* <getProperties version=1.7 /> (no quotes),
\* a newNumberVector whose oneNumber is not closed,
\* and a newNumberVector start tag whose end tag never arrives
BadAttr == <<"<", "get", "Properties", " ", "version", "=", "1.", "7", " ", "/", ">">>
BadNesting ==
    <<"<", "new", "Number", "Vector">> \o Attr("name", <<"LEFT", "_DOOR">>)
    \o <<">", "<", "one", "Number", ">", "6", "<", "/", "new", "Number", "Vector", ">">>
NoEndTag ==
    <<"<", "new", "Number", "Vector">> \o Attr("device", DeviceBytes)
    \o Attr("name", <<"LEFT", "_DOOR">>) \o <<">">>
MalformedChunks == {BadAttr, BadNesting, NoEndTag}

\* what follows an unrecognised message or a malformed chunk
Followers == {<<MsgGet>>, <<MsgNumber>>, <<MsgNumber, MsgGetDoor>>}

RECURSIVE Join(_)
Join(messages) ==
    IF messages = <<>> THEN <<>> ELSE Head(messages) \o <<"\n">> \o Join(Tail(messages))

\* the streams a client sends; valid lists the complete valid messages of
\* the stream in their order
Inputs ==
    { [kind |-> "valid", bytes |-> m, valid |-> <<m>>] : m \in ValidMessages }
    \cup { [kind |-> "unrecognised", bytes |-> u \o Join(f), valid |-> f] :
               u \in UnrecognisedMessages, f \in Followers }
    \cup { [kind |-> "malformed", bytes |-> b \o <<"\n">> \o Join(f), valid |-> f] :
               b \in MalformedChunks, f \in Followers }

\* the kinds of place of a split after the first k bytes: inside an
\* attribute value (an odd number of quotes before it), inside the name of
\* a start tag, inside a two-byte character
Cut(bytes, k) ==
    IF k = 0 \/ k >= Len(bytes) THEN {}
    ELSE LET quotes == Cardinality({j \in 1..k : bytes[j] = Quote})
             marks == {j \in 1..k : ~IsWord(bytes[j])}
             last == IF marks = {} THEN 0
                     ELSE CHOOSE j \in marks : \A m \in marks : m <= j
         IN  (IF quotes % 2 = 1 THEN {"value"} ELSE {})
             \cup (IF /\ quotes % 2 = 0 /\ last > 0 /\ last < k /\ bytes[last] = "<"
                      /\ IsWord(bytes[k + 1])
                   THEN {"name"} ELSE {})
             \cup (IF IsLead(bytes[k]) THEN {"char"} ELSE {})

\* the reader waits in readuntil and the client has sent everything
Delivered == wire = <<>> /\ ~readuntil(stream).ready

\* the roots ET.fromstring gives for the unsplit bytes of the messages
Parsed(messages) == [i \in 1..Len(messages) |-> Root(fromstring(messages[i]).node)]

InitReader ==
    /\ DriverInit
    /\ \E i \in Inputs :
          /\ input = i
          /\ wire = i.bytes
    /\ stream = <<>>
    /\ rmessage = <<>>
    /\ rtagnumber = NoTag
    /\ dispatched = <<>>
    /\ readop = NoRead
    /\ cuts = {}
    /\ LogOff /\ MonitorOff

\* the next n bytes of the client arrive in the buffer of the StreamReader
\* (the transport is paused while the buffer holds more than twice the
\* limit); a longer chunk is several arrivals with no pass of reader between
Feed(n) ==
    /\ n \in 1..Len(wire)
    /\ n <= MaxFeed
    /\ Len(stream) <= 2 * StreamLimit
    /\ stream' = stream \o SubSeq(wire, 1, n)
    /\ wire' = SubSeq(wire, n + 1, Len(wire))
    /\ cuts' = cuts \cup Cut(input.bytes, Len(input.bytes) - Len(wire) + n)
    /\ pub' = <<>>
    /\ lastop' = [NoOp EXCEPT !.op = "feed"]
    /\ UNCHANGED <<variant, now, due, door, lights, roof, sender, file, cycle, ncmd, rx>>
    /\ UNCHANGED bridgevars
    /\ UNCHANGED <<input, rmessage, rtagnumber, dispatched, readop>>
    /\ UNCHANGED <<running, log>>
    /\ UNCHANGED monitorvars

\* one pass of the loop of reader: readuntil returns data, and a complete
\* message is parsed and passed to respond
Read ==
    LET r == readuntil(stream)
        s == reader(rmessage, rtagnumber, r.data)
    IN  /\ running
        /\ r.ready
        /\ stream' = r.rest
        /\ rmessage' = s.message
        /\ rtagnumber' = s.messagetagnumber
        /\ dispatched' = dispatched \o s.roots
        /\ readop' = [data |-> r.data, outcome |-> s.outcome]
        /\ IF s.roots # <<>>
           THEN Respond(s.roots[1])
           ELSE /\ pub' = <<>>
                /\ lastop' = [NoOp EXCEPT !.op = "read"]
                /\ UNCHANGED <<variant, now, due, door, lights, roof, sender, file,
                               cycle>>
                /\ UNCHANGED bridgevars
                /\ UNCHANGED <<running, log>>
                /\ UNCHANGED monitorvars
        /\ UNCHANGED <<input, wire, cuts, ncmd, rx>>

NextReader ==
    \/ \E n \in 1..MaxFeed : Feed(n)
    \/ Read

SpecReader == InitReader /\ [][NextReader]_vars

C17_ValidAfterMalformedDispatched ==
    (input.kind = "malformed" /\ Delivered) => dispatched = Parsed(input.valid)

\* C18: data that arrives with the buffer empty and starts with no known
\* start tag dispatches nothing and leaves the buffer empty and the tag
\* number unset, and the valid messages after it are dispatched.
C18_UnrecognisedIgnored ==
    /\ [][lastop'.op = "read" /\ readop'.outcome = "ignored"
          => /\ rmessage = <<>>
             /\ rmessage' = <<>> /\ rtagnumber' = NoTag
             /\ dispatched' = dispatched
             /\ sender' = sender /\ door' = door]_vars
    /\ [](input.kind = "unrecognised" /\ Delivered => dispatched = Parsed(input.valid))

\* witness of C18: <enableBLOB ...>Never</enableBLOB> was ignored and the
\* newNumberVector and the getProperties after it were dispatched
C18_Witness ==
    /\ input.kind = "unrecognised"
    /\ input.bytes = MsgEnableBLOB \o Join(<<MsgNumber, MsgGetDoor>>)
    /\ Delivered
    /\ Len(dispatched) = 2
    /\ dispatched[1].tag = "newNumberVector"
    /\ dispatched[2] = GetProperties("1.7", Device, "LEFT_DOOR")
    /\ rmessage = <<>>

(***************************************************************************)
(* Properties of the dispatch of commands (SpecMotion, Spec)               *)
(***************************************************************************)
\* the step just taken handled a new*Vector command
ReceivedCommand ==
    lastop.op = "receive" /\ lastop.root.tag \in {"newNumberVector", "newSwitchVector"}

\* the update messages of the vector of that name among the messages msgs
Updates(msgs, name) ==
    {i \in 1..Len(msgs) :
        /\ msgs[i].tag \in {"setNumberVector", "setLightVector", "setSwitchVector"}
        /\ msgs[i].device = Device
        /\ msgs[i].name = name}

\* C21 as stated: processing one new*Vector command makes each vector
\* enqueue at most one update message, whatever number of child elements
\* the command carries.
C21_AtMostOneUpdate ==
    ReceivedCommand => \A n \in VectorNames : Cardinality(Updates(lastop.msgs, n)) <= 1

(***************************************************************************)
(* Commands addressed to nobody, commands without a usable text, and the   *)
(* parameter files: the drivers started with an absent, a short or a       *)
(* written parameter file and sent every kind of command                   *)
(***************************************************************************)
\* a command with any tag, device and name
Command(tag, device, name, children) ==
    [tag |-> tag, device |-> device, name |-> name, version |-> None,
     children |-> children]

\* commands whose tag, device or name is not that of the vector their
\* children are meant for, or of no vector at all
OtherRoots ==
    { Command("newNumberVector", dev, DoorName(0), <<OneNumber("MINIMUM", str(7))>>) :
          dev \in {None, "Rempi01 LED"} }
    \cup { Command(tag, Device, DoorName(1), <<OneNumber("MINIMUM", str(7))>>) :
              tag \in {"newTextVector", "newSwitchVector"} }
    \cup { Command("newNumberVector", Device, nm, <<OneNumber("MINIMUM", str(7))>>) :
              nm \in {None, "DOOR_STATE", "DOME_SHUTTER"} }
    \cup { Command("newSwitchVector", dev, "DOME_SHUTTER", <<OneSwitch("SHUTTER_CLOSE", "On")>>) :
              dev \in {None, "Rempi01 LED"} }
    \cup { Command(tag, Device, "DOME_SHUTTER", <<OneSwitch("SHUTTER_CLOSE", "On")>>) :
              tag \in {"newNumberVector", "newBLOBVector"} }
    \cup { Command("newSwitchVector", Device, nm, <<OneSwitch("SHUTTER_CLOSE", "On")>>) :
              nm \in {None, "DOOR_STATE", "LEFT_DOOR"} }

\* commands that parse as documents and carry an element without text or
\* with a text that is no integer
BadRoots ==
    { NewNumberVector(DoorName(0), <<OneNumber(n, t)>>) :
          n \in {"MAXIMUM", "FAST_DURATION", "LABEL"}, t \in {NoText, NotANumber} }
    \cup { NewNumberVector(DoorName(1),
               <<OneNumber("FAST_DURATION", NotANumber), OneNumber("MAXIMUM", str(96))>>),
           NewSwitchVector(<<OneSwitch("SHUTTER_OPEN", None)>>),
           NewSwitchVector(<<OneSwitch("SHUTTER_CLOSE", "On"), OneSwitch("SHUTTER_OPEN", None)>>),
           NewSwitchVector(<<OneSwitch("LABEL", None)>>) }

\* the reader receives a command that is addressed to no vector
ReceiveOther ==
    /\ ncmd < MaxCommands
    /\ rx < MaxPerTick
    /\ \E root \in OtherRoots : Respond(root)
    /\ ncmd' = ncmd + 1
    /\ rx' = rx + 1
    /\ UNCHANGED readervars

\* the reader receives a command with an element it cannot read
ReceiveBad ==
    /\ ncmd < MaxCommands
    /\ rx < MaxPerTick
    /\ \E root \in BadRoots : Respond(root)
    /\ ncmd' = ncmd + 1
    /\ rx' = rx + 1
    /\ UNCHANGED readervars

\* the parameter files found at the start: absent, of the wrong line count,
\* or written by an earlier run
StartFiles(v) ==
    { <<>>, <<str(1), str(2)>>,
      IF v = "six" THEN <<str(1), str(3), str(1), str(1), str(60), str(7)>>
      ELSE <<str(1), str(3), str(4), str(60), str(7)>> }

InitCommands ==
    /\ \E v \in {"six", "five"} : \E f \in StartFiles(v) :
          InitWith(v, [d \in Doors |-> IF d = 0 THEN f ELSE <<>>])
    /\ BridgeOff
    /\ ReaderOff
    /\ LogOff /\ MonitorOff

NextCommands ==
    \/ Tick(MaxCmdNow)
    \/ \E d \in Doors : DoorUpdate(d)
    \/ LightsUpdate
    \/ RoofUpdate
    \/ Writer
    \/ ReceiveNumber
    \/ ReceiveSwitch
    \/ ReceiveOther
    \/ ReceiveBad

SpecCommands == InitCommands /\ [][NextCommands]_vars

(***************************************************************************)
(* Properties of the dispatch of commands (SpecCommands)                   *)
(***************************************************************************)
\* the command is addressed to the vector of that tag and name
Matches(root, tag, name) == root.tag = tag /\ root.device = Device /\ root.name = name

\* C22: a command whose tag, device or name does not match a vector is
\* ignored by that vector.  A door it does not match keeps its parameters
\* and its parameter file and enqueues no setNumberVector; the roof, when
\* the command does not match DOME_SHUTTER, keeps its status, starts no
\* door, publishes nothing on the Bus and enqueues no setSwitchVector; a
\* command that matches no vector changes nothing at all.
C22_MismatchIgnored ==
    [][(lastop'.op = "receive" /\ lastop'.root.tag # "getProperties") =>
          LET root == lastop'.root
              todoor(d) == Matches(root, "newNumberVector", DoorName(d))
              toroof == Matches(root, "newSwitchVector", "DOME_SHUTTER")
          IN  /\ \A d \in Doors : ~todoor(d) =>
                    /\ door'[d].p = door[d].p
                    /\ file'[d] = file[d]
                    /\ Updates(lastop'.msgs, DoorName(d)) = {}
              /\ ~toroof =>
                    /\ roof' = roof
                    /\ lastop'.calls = <<>>
                    /\ pub' = <<>>
                    /\ tx' = tx
                    /\ Updates(lastop'.msgs, "DOME_SHUTTER") = {}
                    /\ \A d \in Doors : door'[d] = [door[d] EXCEPT !.p = door'[d].p]
              /\ (~toroof /\ \A d \in Doors : ~todoor(d)) =>
                    /\ lastop'.msgs = <<>>
                    /\ sender' = sender
                    /\ door' = door
                    /\ file' = file
                    /\ lights' = lights
                    /\ running']_vars

\* witness of C22: with the roof open and at rest, a newSwitchVector that
\* asks to close but names DOOR_STATE has been received and ignored, the
\* message in the queue left as it was
C22_Witness ==
    /\ lastop.op = "receive"
    /\ lastop.root = Command("newSwitchVector", Device, "DOOR_STATE",
                             <<OneSwitch("SHUTTER_CLOSE", "On")>>)
    /\ lights = "OPEN"
    /\ \A d \in Doors : ~door[d].moving /\ door[d].direction
    /\ lastop.msgs = <<>>
    /\ sender # <<>>
    /\ pub = <<>>

\* C23: the light vector DOOR_STATE never accepts a command.  Whatever the
\* tag, device and name of an incoming new*Vector, the status of the lights
\* is unchanged and no setLightVector is enqueued; what the step publishes
\* on the Bus is published by the roof for a command addressed to
\* DOME_SHUTTER; and a command that names DOOR_STATE changes nothing.
C23_LightsAcceptNothing ==
    [][(lastop'.op = "receive" /\ lastop'.root.tag # "getProperties") =>
          /\ lights' = lights
          /\ Updates(lastop'.msgs, "DOOR_STATE") = {}
          /\ pub' # <<>> => Matches(lastop'.root, "newSwitchVector", "DOME_SHUTTER")
          /\ (lastop'.root.device = Device /\ lastop'.root.name = "DOOR_STATE") =>
                /\ sender' = sender
                /\ pub' = <<>>
                /\ tx' = tx
                /\ door' = door
                /\ roof' = roof]_vars

\* witness of C23: while the doors close, a newNumberVector addressed to
\* DOOR_STATE of this device has been received; the lights still show
\* CLOSING and their report waits in the queue alone
C23_Witness ==
    /\ lastop.op = "receive"
    /\ lastop.root = Command("newNumberVector", Device, "DOOR_STATE",
                             <<OneNumber("MINIMUM", str(7))>>)
    /\ lights = "CLOSING"
    /\ Len(sender) = 1
    /\ sender[1].tag = "setLightVector"
    /\ lastop.msgs = <<>>

\* C27 as stated: no input is fatal to the driver.  For every message the
\* reader has parsed, a newNumberVector whose oneNumber has no text or a
\* text that is no decimal integer and a newSwitchVector whose oneSwitch
\* has no text included, the dispatch completes and the tasks of the
\* driver keep running.
C27_NoInputFatal == lastop.op = "receive" => running

\* the parameters a freshly constructed door takes from the file of door d
Restored(d) ==
    read_parameters(variant, NewDoor(IF variant = "six" THEN DefaultSix ELSE DefaultFive),
                    file[d]).p

\* C28: the parameter file round trip.  At any time read_parameters on a
\* freshly constructed Door gives the parameters the door has, and with an
\* absent file or one of the wrong line count these are the defaults.  An
\* accepted newNumberVector leaves in the file exactly the parameters of the
\* door, one per line in the order of the elements; a rejected one, one that
\* changes no element and one addressed elsewhere leave the file untouched.
C28_ParameterRoundTrip ==
    /\ [](\A d \in Doors :
            /\ Restored(d) = door[d].p
            /\ (file[d] = <<>> \/ Len(file[d]) # Len(Fields(variant)))
                  => door[d].p = IF variant = "six" THEN DefaultSix ELSE DefaultFive)
    /\ [][\A d \in Doors :
            IF ReceivedNumber(d)' /\ lastop'.msgs # <<>>
            THEN IF \/ lastop'.msgs[1].state = "Alert"
                    \/ merge(Names(variant), elements(variant, door[d]),
                             lastop'.root.children) = elements(variant, door[d])
                 THEN file'[d] = file[d] /\ door'[d].p = door[d].p
                 ELSE file'[d] = [i \in 1..Len(Fields(variant)) |->
                                     str(door'[d].p[Fields(variant)[i]])]
            ELSE lastop'.op = "receive" => file'[d] = file[d]]_vars

\* witness of C28: a six-parameter door that started from a written file
\* has accepted new pwm limits, and its file holds the durations it read at
\* the start followed by the new limits
C28_Witness ==
    /\ variant = "six"
    /\ ReceivedNumber(0)
    /\ lastop.msgs # <<>>
    /\ lastop.msgs[1].state = "Ok"
    /\ door[0].p = [acc_duration |-> 1, fast_duration |-> 3, dec_duration |-> 1,
                    slow_duration |-> 1, maximum |-> 60, minimum |-> 50]
    /\ file[0] = <<str(1), str(3), str(1), str(1), str(60), str(50)>>
    /\ file[1] = <<>>

(***************************************************************************)
(* The worked example of the five-parameter door (SpecMotion)              *)
(***************************************************************************)
\* C29: a five-parameter door with fast_duration 4, duration 8,
\* max_running_time 10, maximum 95 and minimum 5.  The update made at
\* elapsed time 0 gives pwm 0, at 4 s pwm 95, at 8 s pwm 5, and the update
\* at 10 s stops the motion and publishes the pwm command 0.
C29_WorkedExample ==
    [][\A d \in Doors :
          (/\ variant = "five"
           /\ door[d].p = [fast_duration |-> 4, duration |-> 8, max_running_time |-> 10,
                           maximum |-> 95, minimum |-> 5]
           /\ door[d].moving
           /\ Updated(d)')
          => /\ RunningTime(d) = 0 => (door'[d].pwm_ratio = 0 /\ door'[d].moving)
             /\ RunningTime(d) = 4 * UnitsPerSecond
                   => (door'[d].pwm_ratio = 95 /\ door'[d].moving)
             /\ RunningTime(d) = 8 * UnitsPerSecond
                   => (door'[d].pwm_ratio = 5 /\ door'[d].moving)
             /\ RunningTime(d) = 10 * UnitsPerSecond
                   => /\ ~door'[d].moving
                      /\ door'[d].pwm_ratio = 0
                      /\ pub' = <<BusCmd(d, "pwm", 0)>>]_vars

\* witness of C29: the door of the example has run its cycle; the update at
\* 10 s has just stopped it, and the value published before was the floor 5
C29_Witness ==
    \E d \in Doors :
        /\ variant = "five"
        /\ door[d].p = DefaultFive
        /\ Updated(d)
        /\ ~door[d].moving
        /\ RunningTime(d) = 10 * UnitsPerSecond
        /\ pub = <<BusCmd(d, "pwm", 0)>>
        /\ cycle[d].last = 0
        /\ cycle[d].prev = 5

(***************************************************************************)
(* Recovery of the reader from a parse failure (SpecReader)                *)
(***************************************************************************)
\* the stream begins with a chunk that completes as a message (it ends
\* with "/>" or with the end tag of its start tag) and fails to parse
BeginsUnparsable ==
    input.kind = "malformed"
    /\ (startswith(input.bytes, BadAttr) \/ startswith(input.bytes, BadNesting))

\* C30: when a completed buffer fails to parse, the reader clears message
\* and messagetagnumber, passes nothing to respond and raises nothing (the
\* queue is as it was and the tasks keep running), and the complete valid
\* messages that arrive after it are parsed and dispatched, each exactly
\* once.
C30_ParseFailureDropped ==
    /\ [][(lastop'.op = "read" /\ readop'.outcome = "malformed") =>
            /\ rmessage' = <<>>
            /\ rtagnumber' = NoTag
            /\ dispatched' = dispatched
            /\ sender' = sender
            /\ door' = door
            /\ running']_vars
    /\ []((BeginsUnparsable /\ Delivered) => dispatched = Parsed(input.valid))

\* witness of C30: a newNumberVector whose oneNumber is never closed has
\* been dropped at its end tag, and the two valid messages sent after it
\* have been dispatched once each
C30_Witness ==
    /\ input.kind = "malformed"
    /\ input.bytes = BadNesting \o <<"\n">> \o Join(<<MsgNumber, MsgGetDoor>>)
    /\ Delivered
    /\ Len(dispatched) = 2
    /\ dispatched[1].tag = "newNumberVector"
    /\ dispatched[1].children # <<>>
    /\ dispatched[2].tag = "getProperties"
    /\ rtagnumber = NoTag
    /\ running

(***************************************************************************)
(* The deque between the producers and the writer: a client sends up to    *)
(* MaxBurst getProperties in one arrival, between two passes of the        *)
(* writer, while the periodic tasks report the changes of status.  readuntil*)
(* does not suspend while the StreamReader holds a '>', so reader handles  *)
(* every message of one arrival before the writer runs again.  The event   *)
(* loop runs every task whose sleep has expired, hence the fairness        *)
(***************************************************************************)
\* the reader receives one more getProperties of a burst
ReceiveBurst ==
    /\ ncmd < MaxBurst
    /\ ncmd = rx
    /\ Respond(GetProperties("1.7", None, None))
    /\ ncmd' = ncmd + 1
    /\ rx' = rx + 1
    /\ UNCHANGED readervars

\* a parameter file of short durations, written by an earlier run
QuickFile(v) ==
    IF v = "six" THEN <<str(1), str(1), str(1), str(1), str(95), str(5)>>
    ELSE <<str(1), str(2), str(3), str(95), str(5)>>

InitQueue ==
    /\ \E v \in {"six", "five"} : InitWith(v, [d \in Doors |-> QuickFile(v)])
    /\ BridgeOff
    /\ ReaderOff
    /\ log = NewLog /\ MonitorOff

NextQueue ==
    \/ Tick(MaxMotionNow)
    \/ \E d \in Doors : DoorUpdate(d)
    \/ LightsUpdate
    \/ RoofUpdate
    \/ Writer
    \/ ReceiveBurst

SpecQueue ==
    /\ InitQueue
    /\ [][NextQueue]_vars
    /\ WF_vars(Tick(MaxMotionNow))
    /\ WF_vars(\E d \in Doors : DoorUpdate(d))
    /\ WF_vars(LightsUpdate)
    /\ WF_vars(RoofUpdate)
    /\ WF_vars(Writer)

(***************************************************************************)
(* Properties of the deque (SpecQueue)                                     *)
(***************************************************************************)
\* C24: the number of messages waiting in sender never exceeds 100.
C24_QueueBounded == Len(sender) <= SenderMaxLen

\* witness of C24: the reader has appended to a full deque, which still
\* holds 100 messages
C24_Witness ==
    /\ lastop.op = "receive"
    /\ Len(sender) = SenderMaxLen
    /\ log.appended > Len(log.output) + SenderMaxLen

\* C25: the messages are written in the order in which they were appended:
\* the numbers they got when appended increase along the output.
C25_WrittenInOrder ==
    \A i \in 1..(Len(log.output) - 1) : log.output[i] < log.output[i + 1]

\* witness of C25: the writer has written a full deque in one pass, the
\* first message appended included, and nothing is left waiting
C25_Witness ==
    /\ lastop.op = "writer"
    /\ Len(log.output) >= SenderMaxLen
    /\ log.output[1] = 1
    /\ log.pending = <<>>

\* C26 as stated: every message appended to sender, by the reader or by a
\* periodic task, is eventually written: from some time on every number
\* given to an appended message is in the output (the producers of the
\* model append finitely often).
C26_EveryMessageWritten ==
    <>[](\A n \in 1..log.appended : \E i \in 1..Len(log.output) : log.output[i] = n)

(***************************************************************************)
(* The door driver and the bridge together over whole motion cycles: the   *)
(* doors start from short parameter files and are commanded through        *)
(* DOME_SHUTTER while the pico reports the limit switches.  The event loop *)
(* of the driver runs every task whose sleep has expired and the main loop *)
(* of the bridge keeps turning, hence the fairness                         *)
(***************************************************************************)
\* the limit-switch reports of the pico during a run: the left door open,
\* then closed, the right door closed
LimitFrames == { <<7, 0, 1, Terminator>>, <<7, 0, 3, Terminator>>,
                 <<7, 1, 3, Terminator>> }

InitLimitRun ==
    /\ \E v \in {"six", "five"} : InitWith(v, [d \in Doors |-> QuickFile(v)])
    /\ BridgeOn
    /\ ReaderOff
    /\ LogOff /\ MonitorOff

NextLimitRun ==
    \/ Tick(MaxMotionNow)
    \/ \E d \in Doors : DoorUpdate(d)
    \/ LightsUpdate
    \/ RoofUpdate
    \/ Writer
    \/ \E bytes \in LimitFrames : PicoSends(bytes)
    \/ BridgeReceiver
    \/ BridgeMessage

SpecLimitRun ==
    /\ InitLimitRun
    /\ [][NextLimitRun]_vars
    /\ WF_vars(Tick(MaxMotionNow))
    /\ WF_vars(\E d \in Doors : DoorUpdate(d))
    /\ WF_vars(LightsUpdate)
    /\ WF_vars(RoofUpdate)
    /\ WF_vars(Writer)
    /\ WF_vars(BridgeReceiver)
    /\ WF_vars(BridgeMessage)

(***************************************************************************)
(* Properties of the motion under limit-switch reports (SpecLimitRun)      *)
(***************************************************************************)
\* C31: the moving flag of a door turns from true to false only in a pass of
\* its update at which the running time has reached the maximum running
\* time; a step that puts a limit-switch code on the Bus changes no door
\* and not the status, and the status a pass of StatusLights.update computes
\* is the one given by the flags of the two doors whatever the codes are; so
\* a door that is moving keeps moving until the cutoff and then stops.
C31_OnlyCutoffStops ==
    /\ [][/\ \A d \in Doors :
               (door[d].moving /\ ~door'[d].moving)
                  => (Updated(d)' /\ RunningTime(d) >= Cutoff(d))
          /\ bus' # bus => (door' = door /\ lights' = lights /\ roof' = roof)
          /\ lastop'.op = "lights" => lights' = door_status(door[0], door[1])]_vars
    /\ \A d \in Doors : door[d].moving ~> ~door[d].moving

\* witness of C31: the cutoff stops the left door while the Bus holds the
\* code "open" for it and the code "closed" for the right door
C31_Witness ==
    /\ Updated(0)
    /\ ~door[0].moving
    /\ pub = <<BusCmd(0, "pwm", 0)>>
    /\ bus.pico_roofdoor0 = 1
    /\ bus.pico_roofdoor1 = 3

(***************************************************************************)
(* Whole motion cycles under commands: the doors start from short          *)
(* parameter files, equal or with a longer running time for the right      *)
(* door, and a client sends DOME_SHUTTER commands and newNumberVector      *)
(* commands that lengthen the running time or change the pwm limits, at    *)
(* any point between the passes of the periodic tasks                      *)
(***************************************************************************)
\* a parameter file with a longer maximum running time than QuickFile
LongerFile(v) ==
    IF v = "six" THEN <<str(1), str(1), str(1), str(2), str(95), str(5)>>
    ELSE <<str(1), str(2), str(4), str(95), str(5)>>

\* the parameter files of the two doors at the start
RunFiles(v) ==
    { [d \in Doors |-> QuickFile(v)],
      [d \in Doors |-> IF d = 0 THEN QuickFile(v) ELSE LongerFile(v)] }

\* newNumberVector commands the checks accept: a longer running time for
\* either door, other pwm limits for the left door
RetuneRoots(v) ==
    { NewNumberVector(DoorName(d),
          <<IF v = "six" THEN OneNumber("SLOW_DURATION", str(3))
            ELSE OneNumber("MAX_RUNNING_TIME", str(5))>>) :
          d \in Doors }
    \cup { NewNumberVector(DoorName(0),
               <<OneNumber("MAXIMUM", str(60)), OneNumber("MINIMUM", str(9))>>) }

\* the reader receives one of these commands
ReceiveRetune ==
    /\ ncmd < MaxCommands
    /\ rx < MaxPerTick
    /\ \E root \in RetuneRoots(variant) : Respond(root)
    /\ ncmd' = ncmd + 1
    /\ rx' = rx + 1
    /\ UNCHANGED readervars

InitRun ==
    /\ \E v \in {"six", "five"} : \E f \in RunFiles(v) : InitWith(v, f)
    /\ BridgeOff
    /\ ReaderOff
    /\ LogOff /\ MonitorOff

NextRun ==
    \/ Tick(MaxRunNow)
    \/ \E d \in Doors : DoorUpdate(d)
    \/ LightsUpdate
    \/ RoofUpdate
    \/ Writer
    \/ ReceiveSwitch
    \/ ReceiveRetune

SpecRun == InitRun /\ [][NextRun]_vars

(***************************************************************************)
(* Properties of whole motion cycles under commands (SpecRun)              *)
(***************************************************************************)
\* C32 as stated: the cutoff of a motion cycle cannot be postponed: a pass
\* of the update of a moving door at which the running time has reached the
\* maximum running time the door had when the cycle started leaves the
\* door with moving false, also when newNumberVector commands were accepted
\* during the cycle.
C32_CutoffNotPostponed ==
    [][\A d \in Doors :
          (/\ Updated(d)'
           /\ door[d].moving
           /\ RunningTime(d) >= cycle[d].cutoff * UnitsPerSecond)
          => ~door'[d].moving]_vars

\* the commands of one kind published for door d among pubs
Published(pubs, d, cmd) == SelectSeq(pubs, LAMBDA m : m.door = d /\ m.cmd = cmd)

\* C33: for each door the publishes of a motion cycle come in this order:
\* the step that starts the door publishes exactly one direction command
\* and no pwm command; while the door moves a step publishes at most one pwm
\* command, in a pass of update, with a value other than the one sent
\* before; the step that stops the door publishes exactly the zero pwm;
\* and while the door is at rest nothing is published for it.
C33_PublishOrder ==
    [][\A d \in Doors :
          LET dirs == Published(pub', d, "direction")
              pwms == Published(pub', d, "pwm")
          IN  /\ (~door[d].moving /\ door'[d].moving)
                    => /\ dirs = <<BusCmd(d, "direction",
                                          IF door'[d].direction THEN 1 ELSE 0)>>
                       /\ pwms = <<>>
              /\ ~(~door[d].moving /\ door'[d].moving) => dirs = <<>>
              /\ (door[d].moving /\ door'[d].moving)
                    => /\ Len(pwms) <= 1
                       /\ pwms # <<>> => /\ Updated(d)'
                                         /\ pwms[1].value # cycle[d].last
                                         /\ pwms[1].value # door[d].pwm_ratio
              /\ (door[d].moving /\ ~door'[d].moving) => pwms = <<BusCmd(d, "pwm", 0)>>
              /\ (~door[d].moving /\ ~door'[d].moving) => pwms = <<>>]_vars

\* witness of C33: the stop of a cycle of the left door that a command
\* started, after pwm commands have been published in it
C33_Witness ==
    /\ Updated(0)
    /\ ~door[0].moving
    /\ door[0].direction
    /\ pub = <<BusCmd(0, "pwm", 0)>>
    /\ cycle[0].prev > 0

\* C34: while a door moves with the slow flag set (the close started by
\* driver() with slow=True) every pwm value published for it is at most
\* minimum + 1; a pass of update of a door at rest clears the flag; a step
\* that starts a door (a DOME_SHUTTER command) leaves its flag false, and
\* no step sets the flag of a door, so every motion started by a command
\* runs with the flag false, scaled to maximum.
C34_SlowHoming ==
    [][\A d \in Doors :
          /\ (Updated(d)' /\ door[d].moving /\ door[d].slow)
                => \A i \in 1..Len(pub') : pub'[i].value <= door[d].p.minimum + 1
          /\ (Updated(d)' /\ ~door[d].moving) => ~door'[d].slow
          /\ (~door[d].moving /\ door'[d].moving) => ~door'[d].slow
          /\ ~door[d].slow => ~door'[d].slow]_vars

\* witness of C34: the left door, closed slowly at the start and at rest
\* since, has been opened by a command and its update publishes maximum
C34_Witness ==
    /\ variant = "six"
    /\ Updated(0)
    /\ door[0].moving /\ door[0].direction /\ ~door[0].slow
    /\ pub = <<BusCmd(0, "pwm", door[0].p.maximum)>>
    /\ door[0].p.maximum > door[0].p.minimum + 1

\* the status a setLightVector carries: the name of its light that is lit
Lit(m) == { m.children[i].name : i \in { k \in 1..Len(m.children) : m.children[k].text # "Idle" } }

\* C35: a pass of StatusLights.update that computes the status it reported
\* last appends nothing; a pass that computes another status appends one
\* setLightVector carrying it; the status reported last changes in no other
\* step, so no two consecutive setLightVector messages carry the same
\* status.  The same holds for Roof.update, the status of the lights and
\* its setSwitchVector.
C35_ReportOnChange ==
    [][/\ lastop'.op = "lights" =>
            LET status == door_status(door[0], door[1])
            IN  /\ status = lights => (lastop'.msgs = <<>> /\ sender' = sender /\ lights' = lights)
                /\ status # lights =>
                      /\ Len(lastop'.msgs) = 1
                      /\ lastop'.msgs[1].tag = "setLightVector"
                      /\ Lit(lastop'.msgs[1]) = {status}
                      /\ sender' = Append100(sender, lastop'.msgs[1])
                      /\ lights' = status
       /\ lights' # lights => lastop'.op = "lights"
       /\ lastop'.op = "roof" =>
            /\ lights = roof => (lastop'.msgs = <<>> /\ sender' = sender /\ roof' = roof)
            /\ lights # roof =>
                  /\ lastop'.msgs = <<setswitchvector(lights)>>
                  /\ lastop'.msgs # <<setswitchvector(roof)>>
                  /\ sender' = Append100(sender, lastop'.msgs[1])
                  /\ roof' = lights
       /\ roof' # roof => lastop'.op = "roof"]_vars

\* witness of C35: after the passes of an opening that reported nothing,
\* Roof.update reports the roof open
C35_Witness ==
    /\ lastop.op = "roof"
    /\ lastop.msgs = <<setswitchvector("OPEN")>>
    /\ roof = "OPEN"
    /\ \E d \in Doors : cycle[d].at > 0

(***************************************************************************)
(* The runs of doordriver.py with the scheduling of the event loop: every  *)
(* task whose sleep has expired runs, and time advances                    *)
(***************************************************************************)
InitRunSix ==
    /\ \E f \in RunFiles("six") : InitWith("six", f)
    /\ BridgeOff
    /\ ReaderOff
    /\ LogOff /\ MonitorOff

SpecRunFair ==
    /\ InitRunSix
    /\ [][NextRun]_vars
    /\ WF_vars(Tick(MaxRunNow))
    /\ WF_vars(\E d \in Doors : DoorUpdate(d))
    /\ WF_vars(LightsUpdate)
    /\ WF_vars(RoofUpdate)
    /\ WF_vars(Writer)

\* the reader has just processed a DOME_SHUTTER command with SHUTTER_OPEN
\* On while the status of the lights is CLOSED, and it is the last command
\* of the client
OpenAccepted ==
    /\ lastop.op = "receive"
    /\ lastop.root.tag = "newSwitchVector"
    /\ \E k \in 1..Len(lastop.root.children) :
          lastop.root.children[k] = OneSwitch("SHUTTER_OPEN", "On")
    /\ lights = "CLOSED"
    /\ ncmd = MaxCommands

\* C36: after a DOME_SHUTTER command SHUTTER_OPEN = On processed while the
\* status is CLOSED, and with no further command, both doors are opening,
\* started in one step; from then on the status goes from CLOSED to OPENING
\* and from OPENING to OPEN and takes no other value; it eventually is OPEN,
\* and Roof.update eventually appends a setSwitchVector with state Ok and
\* SHUTTER_OPEN On.
C36_OpenCompletes ==
    /\ [](OpenAccepted =>
            /\ \A d \in Doors : door[d].moving /\ door[d].direction
            /\ door[0].start_running = door[1].start_running)
    /\ [][(/\ ncmd = MaxCommands
           /\ door[0].direction /\ door[1].direction
           /\ lights \in {"CLOSED", "OPENING"})
          => lights' \in {lights, IF lights = "CLOSED" THEN "OPENING" ELSE "OPEN"}]_vars
    /\ OpenAccepted ~> (lights = "OPEN")
    /\ OpenAccepted ~>
          (/\ lastop.op = "roof"
           /\ Len(lastop.msgs) = 1
           /\ lastop.msgs[1].tag = "setSwitchVector"
           /\ lastop.msgs[1].state = "Ok"
           /\ lastop.msgs[1].children[1] = OneSwitch("SHUTTER_OPEN", "On"))

\* witness of C36: the command has just started both doors of doordriver.py
C36_Witness ==
    /\ OpenAccepted
    /\ variant = "six"
    /\ \A d \in Doors : door[d].moving /\ door[d].start_running = now
    /\ pub = <<BusCmd(0, "direction", 1), BusCmd(1, "direction", 1)>>

\* C37: the two doors always have the same direction, from the start of
\* the driver on, under every interleaving of commands and passes of the
\* tasks and also when their maximum running times differ; hence no pass
\* of StatusLights.update computes UNKNOWN.
C37_Lockstep ==
    /\ [](door[0].direction = door[1].direction)
    /\ [][lastop'.op = "lights" => lights' # "UNKNOWN"]_vars

\* witness of C37: the doors have different maximum running times and the
\* left door, started by a command together with the right one, has been
\* stopped by its cutoff while the right door is still moving
C37_Witness ==
    /\ Cutoff(0) < Cutoff(1)
    /\ door[0].direction /\ door[1].direction
    /\ ~door[0].moving /\ door[1].moving
    /\ lights = "OPENING"

\* the step just taken handled a newSwitchVector addressed to DOME_SHUTTER
ReceivedShutter ==
    /\ lastop.op = "receive"
    /\ lastop.root.tag = "newSwitchVector"
    /\ lastop.root.device = Device
    /\ lastop.root.name = "DOME_SHUTTER"

\* C38: a DOME_SHUTTER newSwitchVector calls startdoor only when the status
\* of the lights is OPEN or CLOSED, with the direction opposite to that
\* status (open when CLOSED, close when OPEN) and for the left and the
\* right door one after the other in the same step; while the status is
\* OPENING, CLOSING or UNKNOWN the command calls nothing, changes no door,
\* publishes nothing and appends nothing.
C38_StartOnlyAtRest ==
    [][ReceivedShutter' =>
          LET calls == lastop'.calls
          IN  /\ calls # <<>> =>
                    /\ lights \in {"OPEN", "CLOSED"}
                    /\ \A i \in 1..Len(calls) : calls[i].direction = (lights = "CLOSED")
              /\ Len(calls) % 2 = 0
              /\ \A i \in 1..Len(calls) : calls[i].door = (i + 1) % 2
              /\ lights \in {"OPENING", "CLOSING", "UNKNOWN"} =>
                    /\ calls = <<>>
                    /\ door' = door
                    /\ pub' = <<>>
                    /\ lastop'.msgs = <<>>
                    /\ sender' = sender]_vars

\* witness of C38: a command to close processed while the status is OPEN
\* has started both doors closing
C38_Witness ==
    /\ ReceivedShutter
    /\ lights = "OPEN"
    /\ Len(lastop.calls) = 2
    /\ \A i \in 1..2 : ~lastop.calls[i].moving /\ ~lastop.calls[i].direction
    /\ \A d \in Doors : door[d].moving /\ ~door[d].direction /\ door[d].start_running = now

\* the step just taken appended the Ok reply of sendsetswitchvectorok
RepliedOk ==
    /\ ReceivedShutter
    /\ \E i \in 1..Len(lastop.msgs) : lastop.msgs[i] = setswitchvectorok

\* C39: the 'already open' / 'already closed' Ok setSwitchVector is
\* appended only by a command that finds both doors at rest with the
\* direction of the status the reply confirms (opened for OPEN, closed for
\* CLOSED), and the doors are still at rest when the step has appended it:
\* the reply is never sent while a door is moving.
C39_OkOnlyAtRest ==
    [][RepliedOk' =>
          /\ lights \in {"OPEN", "CLOSED"}
          /\ \A d \in Doors :
                /\ ~door[d].moving
                /\ door[d].direction = (lights = "OPEN")
                /\ ~door'[d].moving]_vars

(***************************************************************************)
(* The Monitor of picodriver.py: every 15 s it asks the pico, through the  *)
(* bridge, to echo a count and compares the echo stored on the Bus         *)
(***************************************************************************)
\* the largest count at which the pico is let stop answering
MaxStop == 2

PicoDevice == "Rempico01"

\* Monitor.update, the request: the count that is published
request_count(count) == IF count + 1 = 255 THEN 0 ELSE count + 1

\* Monitor.setlightvector for a status that differs from the stored one
monitor_setlightvector(status, message) ==
    [tag |-> "setLightVector", device |-> PicoDevice, name |-> "MONITOR",
     state |-> IF status THEN "Ok" ELSE "Alert", message |-> message,
     children |-> <<[tag |-> "oneLight", name |-> "PICOALIVE",
                     text |-> IF status THEN "Ok" ELSE "Alert"]>>]

\* Monitor.update, the check: value is rconn.get('pico_monitor') (-1: None)
monitor_check(count, old, value) ==
    LET status == value # -1 /\ count = value
    IN  IF status = old THEN [status |-> old, msgs |-> <<>>]
        ELSE IF status
        THEN [status |-> TRUE,
              msgs |-> <<[tag |-> "message", message |-> "Pico operational"],
                         monitor_setlightvector(TRUE, "Communicating with pico OK")>>]
        ELSE [status |-> FALSE,
              msgs |-> <<[tag |-> "message",
                          message |-> "Cannot access pico, operations via the pico board may not be valid"],
                         monitor_setlightvector(FALSE, "Communicating with pico has failed")>>]

\* the sleep(10) of Monitor.update ends: the next count is published.  The
\* bridge, whose loop takes a fraction of a second, has taken every
\* message published before the sleep
MonitorRequest ==
    /\ monitor.pc = "sleep10"
    /\ tx = <<>>
    /\ LET count == request_count(monitor.count)
       IN  /\ monitor' = [monitor EXCEPT !.pc = "sleep5", !.count = count, !.msgs = <<>>]
           /\ tx' = IF bridge \in {"off", "crashed"} THEN tx
                    ELSE Append(tx, Data("pico_monitor_", str(count)))
    /\ pico' = [pico EXCEPT !.quiet = ~pico.alive]
    /\ pub' = <<>>
    /\ lastop' = [NoOp EXCEPT !.op = "request"]
    /\ UNCHANGED <<variant, now, due, door, lights, roof, sender, file, cycle, ncmd, rx>>
    /\ UNCHANGED <<bridge, serin, written, bus, bridgeop>>
    /\ UNCHANGED readervars
    /\ UNCHANGED <<running, log>>

\* the sleep(5) ends: the echo on the Bus is compared with the count.  In
\* the 5 s the bridge has written the request and read what the pico sent,
\* and a pico that answers has answered
MonitorCheck ==
    /\ monitor.pc = "sleep5"
    /\ tx = <<>> /\ serin = <<>>
    /\ pico.alive => bus.pico_monitor = monitor.count
    /\ LET r == monitor_check(monitor.count, monitor.status, bus.pico_monitor)
       IN  monitor' = [monitor EXCEPT !.pc = "sleep10", !.status = r.status,
                                      !.msgs = r.msgs]
    /\ pub' = <<>>
    /\ lastop' = [NoOp EXCEPT !.op = "check"]
    /\ UNCHANGED <<variant, now, due, door, lights, roof, sender, file, cycle, ncmd, rx>>
    /\ UNCHANGED bridgevars
    /\ UNCHANGED readervars
    /\ UNCHANGED <<running, log, pico>>

\* the pico answers the monitor request the bridge has just written with
\* the frame receiver stores as the echo: <<3, 0, count, 255>>
PicoEchoes ==
    /\ pico.alive
    /\ \E i \in 1..Len(written) :
          /\ written[i][1] = 3
          /\ Len(serin) + Len(written[i]) <= MaxSerial
          /\ serin' = serin \o written[i]
    /\ pub' = <<>>
    /\ lastop' = [NoOp EXCEPT !.op = "pico"]
    /\ UNCHANGED <<variant, now, due, door, lights, roof, sender, file, cycle, ncmd, rx>>
    /\ UNCHANGED <<bridge, tx, written, bus, bridgeop>>
    /\ UNCHANGED readervars
    /\ UNCHANGED <<running, log, monitor, pico>>

\* the pico stops answering, with none of its frames left on the line:
\* from here on nothing sets the key pico_monitor
PicoStops ==
    /\ pico.alive
    /\ serin = <<>>
    /\ monitor.count <= MaxStop
    /\ pico' = [pico EXCEPT !.alive = FALSE]
    /\ pub' = <<>>
    /\ lastop' = [NoOp EXCEPT !.op = "pico"]
    /\ UNCHANGED <<variant, now, due, door, lights, roof, sender, file, cycle, ncmd, rx>>
    /\ UNCHANGED bridgevars
    /\ UNCHANGED readervars
    /\ UNCHANGED <<running, log, monitor>>

\* picodriver.py has built its Monitor (count 0, status True) and entered
\* the first sleep of update
MonitorOn ==
    /\ monitor = [NoMonitor EXCEPT !.pc = "sleep10"]
    /\ pico = NoPico

InitMonitor ==
    /\ InitWith("six", [d \in Doors |-> <<>>])
    /\ BridgeOn
    /\ ReaderOff
    /\ LogOff
    /\ MonitorOn

NextMonitor ==
    \/ MonitorRequest
    \/ MonitorCheck
    \/ PicoEchoes
    \/ PicoStops
    \/ BridgeReceiver
    \/ BridgeMessage

SpecMonitor == InitMonitor /\ [][NextMonitor]_vars

\* C40: once the pico has stopped answering and nothing sets the key
\* pico_monitor any more, every check of a request published since then
\* leaves Monitor.status False, however many requests have been made (also
\* after the count has wrapped from 254 to 0), and no such check appends
\* the messages that report the pico operational.
C40_StaleNeverAlive ==
    [][(monitor.pc = "sleep5" /\ monitor'.pc = "sleep10" /\ pico.quiet)
          => (~monitor'.status /\ \A i \in 1..Len(monitor'.msgs) :
                                     monitor'.msgs[i].message # "Pico operational")]_vars

====
